---- MODULE Spec2Model ----
(***************************************************************************)
(* Flight-track analysis of scripts/analyze_flight_data.py: closest        *)
(* approach to each course waypoint, grouping of the in-radius points of a *)
(* track into corner passes, and the per-corner detail report; the         *)
(* geometry functions on points far apart; the telemetry log analyses of   *)
(* scripts/analyze_bin_telemetry.py; and the KML writer of                 *)
(* scripts/bin_to_kmz.py read back by parse_kml.                           *)
(*                                                                         *)
(* Units.  Latitudes and longitudes are integers in 1e-7 degree, distances *)
(* are integers in micrometres (floor of the float the code computes),     *)
(* bearings are integers in micro-degrees.                                 *)
(***************************************************************************)
EXTENDS Integers, Sequences, FiniteSets, TLC

VARIABLES
  coords,      \* the track handed to the analyses
  coords0,     \* the track as it was loaded (history variable)
  course,      \* the reference points the caller holds
  call,        \* the last analysis call and its arguments
  ret,         \* what the last call returned
  out,         \* what the last call printed
  reached,     \* the functions the last call reached
  geom,        \* the last call of a geometry function and its outcome
  mlog,        \* the records of the telemetry log
  pos,         \* the read position of the telemetry log
  tele,        \* the last telemetry analysis and its result
  gps_points,  \* the points handed to the KML writer
  kml,         \* the KML document written
  parsed       \* the track parsed from the document

flightVars == <<coords, coords0, course, call, ret, out, reached>>
geoVars == <<geom>>
logVars == <<mlog, pos, tele>>
kmlVars == <<gps_points, kml, parsed>>
vars == <<flightVars, geoVars, logVars, kmlVars>>

(***************************************************************************)
(* Bounds of the model.                                                    *)
(***************************************************************************)
\* A track is a concatenation of at most MaxSegs runs of one repeated position.
MaxSegs == 5

\* The proximity analysis is explored on every track of at most MaxTrackLen
\* points; on these tracks calls may follow one another in any order.
MaxTrackLen == 4

\* The analyses are explored in every order, degenerate search radii
\* included, on every track of at most MaxCallLen points.
MaxCallLen == 2

\* A telemetry log has at most MaxLogLen records.
MaxLogLen == 3

\* At most MaxKmlPoints points are handed to the KML writer.
MaxKmlPoints == 2

\* Lengths of the runs of position pNear (a lap's points next to corner NE).
NearRuns == {3, 5}

\* Lengths of the runs of position pEdge (a single point).
EdgeRuns == {1}

\* Lengths of the runs of position pFar, far from the course: runs of 8 and 9
\* points give index gaps of 9 and 10, on the two sides of the pass-splitting
\* test; 47 and 200 are the long gaps between laps.
FarRuns == {8, 9, 47, 200}

(***************************************************************************)
(* Course waypoints and the positions a track point can have.              *)
(***************************************************************************)
\* The names of the points the geometry tables are defined on: the five
\* course waypoints, one extra reference point outside the course order, and
\* four track positions (pNorth lies just north of corner NW).
PointNames ==
  {"GATE", "SW", "NW", "NE", "SE", "MID", "pNear", "pEdge", "pFar", "pNorth"}

\* Coordinates of the points, in 1e-7 degree.
PT ==
  [ GATE |-> [lat |-> 327630074, lon |-> -1172137503],
    SW |-> [lat |-> 327630446, lon |-> -1172141272],
    NW |-> [lat |-> 327633897, lon |-> -1172142050],
    NE |-> [lat |-> 327635160, lon |-> -1172134486],
    SE |-> [lat |-> 327631078, lon |-> -1172133762],
    MID |-> [lat |-> 327632000, lon |-> -1172138000],
    pNear |-> [lat |-> 327635000, lon |-> -1172134500],
    pEdge |-> [lat |-> 327633000, lon |-> -1172136000],
    pFar |-> [lat |-> 327650000, lon |-> -1172100000],
    pNorth |-> [lat |-> 327634000, lon |-> -1172141000] ]

\* haversine_distance between every two points: the value the function
\* returns, in micrometres (rounded down).
HavTable ==
  [ GATE |->
      [ GATE |-> 0, SW |-> 35484179, NW |-> 60122978,
        NE |-> 63199377, SE |-> 36718724, MID |-> 21914558,
        pNear |-> 61552630, pEdge |-> 35441202, pFar |-> 414802979,
        pNorth |-> 54543417 ],
    SW |->
      [ GATE |-> 35484179, SW |-> 0, NW |-> 39056843,
        NE |-> 82303214, SE |-> 70573423, MID |-> 35137466,
        pNear |-> 81079443, pEdge |-> 56891264, pFar |-> 442949312,
        pNorth |-> 39600434 ],
    NW |->
      [ GATE |-> 60122978, SW |-> 39056843, NW |-> 0,
        NE |-> 72108123, SE |-> 83596559, MID |-> 43348052,
        pNear |-> 71653860, pEdge |-> 57443244, pFar |-> 432037725,
        pNorth |-> 9884622 ],
    NE |->
      [ GATE |-> 63199377, SW |-> 82303214, NW |-> 72108123,
        NE |-> 0, SE |-> 45891841, MID |-> 48106984,
        pNear |-> 1783928, pEdge |-> 27879761, pFar |-> 362228020,
        pNorth |-> 62260024 ],
    SE |->
      [ GATE |-> 36718724, SW |-> 70573423, NW |-> 83596559,
        NE |-> 45891841, SE |-> 0, MID |-> 40932319,
        pNear |-> 44153237, pEdge |-> 29910982, pFar |-> 379380517,
        pNorth |-> 75074270 ],
    MID |->
      [ GATE |-> 21914558, SW |-> 35137466, NW |-> 43348052,
        NE |-> 48106984, SE |-> 40932319, MID |-> 0,
        pNear |-> 46731509, pEdge |-> 21757141, pFar |-> 407811865,
        pNorth |-> 35797545 ],
    pNear |->
      [ GATE |-> 61552630, SW |-> 81079443, NW |-> 71653860,
        NE |-> 1783928, SE |-> 44153237, MID |-> 46731509,
        pNear |-> 0, pEdge |-> 26292488, pFar |-> 363158257,
        pNorth |-> 61787138 ],
    pEdge |->
      [ GATE |-> 35441202, SW |-> 56891264, NW |-> 57443244,
        NE |-> 27879761, SE |-> 29910982, MID |-> 21757141,
        pNear |-> 26292488, pEdge |-> 0, pFar |-> 386061025,
        pNorth |-> 48056749 ],
    pFar |->
      [ GATE |-> 414802979, SW |-> 442949312, NW |-> 432037725,
        NE |-> 362228020, SE |-> 379380517, MID |-> 407811865,
        pNear |-> 363158257, pEdge |-> 386061025, pFar |-> 0,
        pNorth |-> 422638813 ],
    pNorth |->
      [ GATE |-> 54543417, SW |-> 39600434, NW |-> 9884622,
        NE |-> 62260024, SE |-> 75074270, MID |-> 35797545,
        pNear |-> 61787138, pEdge |-> 48056749, pFar |-> 422638813,
        pNorth |-> 0 ] ]

\* degrees(atan2(x, y)) of bearing() from the row point to the column point,
\* in micro-degrees (rounded down).
RawBearingTable ==
  [ GATE |->
      [ GATE |-> 0, SW |-> -83305612, NW |-> -45004655,
        NE |-> 26511202, SE |-> 72299465, MID |-> -12243149,
        pNear |-> 27141407, pEdge |-> 23362041, pFar |-> 57712700,
        pNorth |-> -36834083 ],
    SW |->
      [ GATE |-> 96694184, SW |-> 0, NW |-> -10734569,
        NE |-> 50440240, SE |-> 84284959, MID |-> 60542665,
        pNear |-> 51350647, pEdge |-> 60053857, pFar |-> 60601098,
        pNorth |-> 3682361 ],
    NW |->
      [ GATE |-> 134995099, SW |-> 169265389, NW |-> 0,
        NE |-> 78768977, SE |-> 112021974, MID |-> 119118022,
        pNear |-> 80144098, pEdge |-> 99999097, pFar |-> 65514300,
        pNorth |-> 83346300 ],
    NE |->
      [ GATE |-> -153488635, SW |-> -129559393, NW |-> -101230614,
        NE |-> 0, SE |-> 171516974, MID |-> -136920288,
        pNear |-> -175791774, pEdge |-> -149484126, pFar |-> 62898686,
        pNorth |-> -101956573 ],
    SE |->
      [ GATE |-> -107700332, SW |-> -95714634, NW |-> -67977578,
        NE |-> -8482986, SE |-> 0, MID |-> -75494771,
        pNear |-> -8991576, pEdge |-> -44396969, pFar |-> 56316171,
        pNorth |-> -64355253 ],
    MID |->
      [ GATE |-> 167756824, SW |-> -119457158, NW |-> -60881758,
        NE |-> 43079522, SE |-> 104505000, MID |-> 0,
        pNear |-> 44452292, pEdge |-> 59264601, pFar |-> 60606310,
        pNorth |-> -51592935 ],
    pNear |->
      [ GATE |-> -152858430, SW |-> -128648986, NW |-> -99855494,
        NE |-> 4208225, SE |-> 171008384, MID |-> -135547519,
        pNear |-> 0, pEdge |-> -147760971, pFar |-> 62658220,
        pNorth |-> -100367518 ],
    pEdge |->
      [ GATE |-> -156637877, SW |-> -119945858, NW |-> -80000576,
        NE |-> 30515792, SE |-> 135602910, MID |-> -120735291,
        pNear |-> 32238948, pEdge |-> 0, pFar |-> 60682025,
        pNorth |-> -76621384 ],
    pFar |->
      [ GATE |-> -122285270, SW |-> -119396668, NW |-> -114483425,
        NE |-> -117099448, SE |-> -123682002, MID |-> -119391634,
        pNear |-> -117339913, pEdge |-> -119316026, pFar |-> 0,
        pNorth |-> -114893781 ],
    pNorth |->
      [ GATE |-> 143165728, SW |-> -176317625, NW |-> -96653643,
        NE |-> 78043075, SE |-> 115644355, MID |-> 128406902,
        pNear |-> 79632130, pEdge |-> 103378345, pFar |-> 65104001,
        pNorth |-> 0 ] ]

\* The name of the point of the tables at each pair of coordinates.
NameAt ==
  [c \in { <<PT[n].lat, PT[n].lon>> : n \in PointNames } |->
     CHOOSE n \in PointNames : PT[n].lat = c[1] /\ PT[n].lon = c[2]]

\* The point of the tables that has the given coordinates.
NameOf(lat, lon) == NameAt[<<lat, lon>>]

\* haversine_distance, in micrometres, on the points of the tables.
haversine_distance(lat1, lon1, lat2, lon2) ==
  HavTable[NameOf(lat1, lon1)][NameOf(lat2, lon2)]

\* degrees(atan2(x, y)) of bearing(), in micro-degrees, in (-180, 180].
initial_bearing(lat1, lon1, lat2, lon2) ==
  RawBearingTable[NameOf(lat1, lon1)][NameOf(lat2, lon2)]

\* 360 degrees, in micro-degrees.
FullTurn == 360000000

\* Mutant: 360 is added and no remainder is taken.
normalised_nomod(initial) == initial + FullTurn

\* Line 90: (degrees(initial_bearing) + 360) % 360.
normalised(initial) == (initial + FullTurn) % FullTurn

\* bearing: the raw angle plus 360, modulo 360.
bearing(lat1, lon1, lat2, lon2) ==
  normalised(initial_bearing(lat1, lon1, lat2, lon2))

(***************************************************************************)
(* The geometry functions on points far apart                              *)
(***************************************************************************)
\* Points far from the course, in 1e-7 degree: the gate and corner NE, a point
\* ten degrees south of the gate, a point close to the antipode of the gate,
\* and two points that are exactly antipodal.
GlobePT ==
  [ gate |-> [lat |-> 327630074, lon |-> -1172137503],
    ne |-> [lat |-> 327635160, lon |-> -1172134486],
    south |-> [lat |-> 227630074, lon |-> -1172137503],
    anti |-> [lat |-> -327630000, lon |-> 627860000],
    eqA |-> [lat |-> 25000000, lon |-> 0],
    eqB |-> [lat |-> -25000000, lon |-> 1800000000] ]

\* Line 79: the value of 1 - a that haversine_distance passes to sqrt, in
\* units of 1e-9 (rounded down, so a value below zero stays below zero).
OneMinusATable ==
  [ gate |->
      [ gate |-> 1000000000, ne |-> 999999999, south |-> 992403876,
        anti |-> 0, eqA |-> 319705397, eqB |-> 680294602 ],
    ne |->
      [ gate |-> 999999999, ne |-> 1000000000, south |-> 992403105,
        anti |-> 0, eqA |-> 319708624, eqB |-> 680291375 ],
    south |->
      [ gate |-> 992403876, ne |-> 992403105, south |-> 1000000000,
        anti |-> 7596112, eqA |-> 297792880, eqB |-> 702207119 ],
    anti |->
      [ gate |-> 0, ne |-> 0, south |-> 7596112,
        anti |-> 1000000000, eqA |-> 680296248, eqB |-> 319703751 ],
    eqA |->
      [ gate |-> 319705397, ne |-> 319708624, south |-> 297792880,
        anti |-> 680296248, eqA |-> 1000000000, eqB |-> -1 ],
    eqB |->
      [ gate |-> 680294602, ne |-> 680291375, south |-> 702207119,
        anti |-> 319703751, eqA |-> -1, eqB |-> 1000000000 ] ]

\* haversine_distance between the far points, in centimetres (rounded down);
\* 0 where the function returns nothing.
GlobeHavTable ==
  [ gate |->
      [ gate |-> 0, ne |-> 6319, south |-> 111194926,
        anti |-> 2001506343, eqA |-> 1235780223, eqB |-> 765728456 ],
    ne |->
      [ gate |-> 6319, ne |-> 0, south |-> 111200582,
        anti |-> 2001500965, eqA |-> 1235775814, eqB |-> 765732865 ],
    south |->
      [ gate |-> 111194926, ne |-> 111200582, south |-> 0,
        anti |-> 1890313835, eqA |-> 1266003449, eqB |-> 735505229 ],
    anti |->
      [ gate |-> 2001506343, ne |-> 2001500965, south |-> 1890313835,
        anti |-> 0, eqA |-> 765726207, eqB |-> 1235782472 ],
    eqA |->
      [ gate |-> 1235780223, ne |-> 1235775814, south |-> 1266003449,
        anti |-> 765726207, eqA |-> 0, eqB |-> 0 ],
    eqB |->
      [ gate |-> 765728456, ne |-> 765732865, south |-> 735505229,
        anti |-> 1235782472, eqA |-> 0, eqB |-> 0 ] ]

\* degrees(atan2(x, y)) of bearing() between the far points, in micro-degrees.
GlobeRawBearingTable ==
  [ gate |->
      [ gate |-> 0, ne |-> 26511202, south |-> 180000000,
        anti |-> 87981685, eqA |-> 72277647, eqB |-> -107722353 ],
    ne |->
      [ gate |-> -153488635, ne |-> 0, south |-> -179998398,
        anti |-> 41943153, eqA |-> 72277653, eqB |-> -107722347 ],
    south |->
      [ gate |-> 0, ne |-> 1460, south |-> 0,
        anti |-> 179998790, eqA |-> 76274838, eqB |-> -103725162 ],
    anti |->
      [ gate |-> -87981551, ne |-> -41942856, south |-> -179998675,
        anti |-> 0, eqA |-> -72277491, eqB |-> 107722509 ],
    eqA |->
      [ gate |-> -53299628, ne |-> -53299191, south |-> -63719301,
        anti |-> 126700433, eqA |-> 0, eqB |-> 90000000 ],
    eqB |->
      [ gate |-> 53299627, ne |-> 53299190, south |-> 63719300,
        anti |-> -126700434, eqA |-> -90000000, eqB |-> 0 ] ]

GlobeNames == DOMAIN GlobePT

\* bearing() between two far points.
globe_bearing(n1, n2) == normalised(GlobeRawBearingTable[n1][n2])

\* Lines 78-80 of haversine_distance between two far points: math.sqrt
\* raises ValueError for an argument below zero, otherwise R * c is returned.
haversine_outcome(n1, n2) ==
  IF OneMinusATable[n1][n2] < 0
  THEN [kind |-> "ValueError", value |-> 0]
  ELSE [kind |-> "value", value |-> GlobeHavTable[n1][n2]]

\* The module-level WAYPOINTS dictionary.
WAYPOINTS ==
  [n \in {"GATE", "SW", "NW", "NE", "SE"} |-> PT[n]]

\* A caller-supplied waypoint set with a reference point outside the course
\* order.
WAYPOINTS_EXT ==
  [n \in {"GATE", "SW", "NW", "NE", "SE", "MID"} |-> PT[n]]

WaypointSets == {WAYPOINTS, WAYPOINTS_EXT}

\* The positions of track points.
Positions == {PT["pNear"], PT["pEdge"], PT["pFar"]}

\* float('inf'): above every distance of the tables.
Infinity == 2147483647

\* Python's None where an index is expected.
None == -1

\* Default search_radius of find_corner_passes, 50 m.
DefaultSearchRadius == 50000000

\* The index gap at which find_corner_passes starts a new pass.
MaxIndexGap == 10

\* Search radii find_corner_passes is called with: the default, and the exact
\* distance of position pEdge from corner NE.
Radii == {DefaultSearchRadius, HavTable["pEdge"]["NE"]}

(***************************************************************************)
(* Tracks.                                                                 *)
(***************************************************************************)
Repeat(p, n) == [i \in 1..n |-> p]

RECURSIVE Expand(_)
Expand(segs) ==
  IF segs = <<>> THEN <<>>
  ELSE Repeat(Head(segs)[1], Head(segs)[2]) \o Expand(Tail(segs))

Segments ==
  ({PT["pNear"]} \X NearRuns) \cup ({PT["pEdge"]} \X EdgeRuns)
    \cup ({PT["pFar"]} \X FarRuns)

SegSeqs ==
  UNION { { s \in [1..n -> Segments] :
              \A i \in 1..(n-1) : s[i][1] # s[i+1][1] } : n \in 0..MaxSegs }

Tracks == { Expand(s) : s \in SegSeqs }

ShortTracks == UNION { [1..n -> Positions] : n \in 0..MaxTrackLen }

\* The positions of the tracks on which the calls are explored in every order.
CallPositions == Positions \cup {PT["pNorth"]}

CallTracks == UNION { [1..n -> CallPositions] : n \in 0..MaxCallLen }

\* Search radii that are not positive.
NonPositiveRadii == {0, 0 - DefaultSearchRadius}

(***************************************************************************)
(* find_corner_passes                                                      *)
(***************************************************************************)
\* Lines 216-226: every point of the track with its index and its distance to
\* the corner, then the ones inside the search radius, in track order.
WithDistance(cs, corner_wp) ==
  [i \in 1..Len(cs) |->
     [index |-> i - 1, lat |-> cs[i].lat, lon |-> cs[i].lon,
      dist  |-> haversine_distance(cs[i].lat, cs[i].lon,
                                   corner_wp.lat, corner_wp.lon)]]

\* Mutant: the boundary of the search radius is included.
InRadius_closed(dist, search_radius) == dist <= search_radius

\* Mutant: the radius filter is dropped.
InRadius_all(dist, search_radius) == TRUE

\* Line 220: the radius test.
InRadius(dist, search_radius) == dist < search_radius

corner_points_of(cs, corner_wp, search_radius) ==
  SelectSeq(WithDistance(cs, corner_wp),
            LAMBDA p : InRadius(p.dist, search_radius))

\* Mutant: a gap of exactly MaxIndexGap still extends the pass.
SamePass_inclusive(prev, cur) == cur.index - prev.index <= MaxIndexGap

\* Mutant: the gap threshold is 100 instead of 10.
SamePass_100(prev, cur) == cur.index - prev.index < 100

\* Line 235: the test that extends the current pass.
SamePass(prev, cur) == cur.index - prev.index < MaxIndexGap

\* Mutant: a finished pass is put in front of the list instead of behind it.
RECURSIVE GroupLoop_prepend(_, _, _, _)
GroupLoop_prepend(cp, i, passes, current_pass) ==
  IF i > Len(cp) THEN <<current_pass>> \o passes
  ELSE IF SamePass(cp[i-1], cp[i])
       THEN GroupLoop_prepend(cp, i + 1, passes, Append(current_pass, cp[i]))
       ELSE GroupLoop_prepend(cp, i + 1, <<current_pass>> \o passes, <<cp[i]>>)

\* Mutant: the pass still open when the loop ends is not appended.
RECURSIVE GroupLoop_droplast(_, _, _, _)
GroupLoop_droplast(cp, i, passes, current_pass) ==
  IF i > Len(cp) THEN passes
  ELSE IF SamePass(cp[i-1], cp[i])
       THEN GroupLoop_droplast(cp, i + 1, passes, Append(current_pass, cp[i]))
       ELSE GroupLoop_droplast(cp, i + 1, Append(passes, current_pass), <<cp[i]>>)

\* Lines 234-240: the grouping loop, from position i of corner_points on.
RECURSIVE GroupLoop(_, _, _, _)
GroupLoop(cp, i, passes, current_pass) ==
  IF i > Len(cp) THEN Append(passes, current_pass)
  ELSE IF SamePass(cp[i-1], cp[i])
       THEN GroupLoop(cp, i + 1, passes, Append(current_pass, cp[i]))
       ELSE GroupLoop(cp, i + 1, Append(passes, current_pass), <<cp[i]>>)

find_corner_passes(cs, corner_wp, search_radius) ==
  LET corner_points == corner_points_of(cs, corner_wp, search_radius)
  IN  IF corner_points = <<>> THEN <<>>
      ELSE GroupLoop(corner_points, 2, <<>>, <<corner_points[1]>>)

(***************************************************************************)
(* analyze_waypoint_proximity                                              *)
(***************************************************************************)
\* Mutant: a point as close as the running minimum replaces it.
Closer_orequal(dist, min_dist) == dist <= min_dist

\* Line 199: the test that replaces the running minimum.
Closer(dist, min_dist) == dist < min_dist

\* Mutant: the scan stops at the first point inside the default search radius.
RECURSIVE ProximityScan_early(_, _, _, _)
ProximityScan_early(dists, i, min_dist, closest_idx) ==
  IF i > Len(dists) \/ min_dist < DefaultSearchRadius
  THEN [min_distance |-> min_dist, point_index |-> closest_idx]
  ELSE IF Closer(dists[i], min_dist)
       THEN ProximityScan_early(dists, i + 1, dists[i], i - 1)
       ELSE ProximityScan_early(dists, i + 1, min_dist, closest_idx)

\* Lines 197-198: the distance of every point of the track to the waypoint.
Distances(cs, wp_data) ==
  [i \in 1..Len(cs) |->
     haversine_distance(cs[i].lat, cs[i].lon, wp_data.lat, wp_data.lon)]

\* Lines 196-201: the scan of the track from position i on, with the running
\* minimum and its index; dists[i] is the distance of point i - 1.
RECURSIVE ProximityScan(_, _, _, _)
ProximityScan(dists, i, min_dist, closest_idx) ==
  IF i > Len(dists)
  THEN [min_distance |-> min_dist, point_index |-> closest_idx]
  ELSE IF Closer(dists[i], min_dist)
       THEN ProximityScan(dists, i + 1, dists[i], i - 1)
       ELSE ProximityScan(dists, i + 1, min_dist, closest_idx)

\* Mutant: the closest index starts at 0 instead of None.
analyze_waypoint_proximity_zero(cs, waypoints) ==
  [wp_name \in DOMAIN waypoints |->
     ProximityScan(Distances(cs, waypoints[wp_name]), 1, Infinity, 0)]

analyze_waypoint_proximity(cs, waypoints) ==
  [wp_name \in DOMAIN waypoints |->
     ProximityScan(Distances(cs, waypoints[wp_name]), 1, Infinity, None)]

(***************************************************************************)
(* analyze_corner_detail                                                   *)
(***************************************************************************)
corner_order == <<"GATE", "SW", "NW", "NE", "SE">>

\* The absent waypoint (prev_wp = None, next_wp = None).
NoWp == "None"

InOrder(corner_name) == \E k \in 1..Len(corner_order) : corner_order[k] = corner_name

\* corner_order.index(corner_name), 0-based.
OrderIndex(corner_name) ==
  (CHOOSE k \in 1..Len(corner_order) : corner_order[k] = corner_name) - 1

\* Lines 255-261: the names of the waypoints before and after the corner.
prev_wp(corner_name) ==
  IF ~InOrder(corner_name) THEN NoWp
  ELSE IF OrderIndex(corner_name) > 0
       THEN corner_order[(OrderIndex(corner_name) - 1) + 1]
       ELSE NoWp

next_wp(corner_name) ==
  IF ~InOrder(corner_name) THEN NoWp
  ELSE corner_order[((OrderIndex(corner_name) + 1) % Len(corner_order)) + 1]

Abs(x) == IF x < 0 THEN -x ELSE x

\* The "closest approach" threshold of 15 m.
WideThreshold == 15000000

\* Number of passes the detail report prints.
PassLimit == 8

\* min(pass_points, key=dist): the first point with the least distance.
Closest(pass_points) ==
  LET k == CHOOSE k \in 1..Len(pass_points) :
             /\ \A j \in 1..Len(pass_points) : pass_points[k].dist <= pass_points[j].dist
             /\ \A j \in 1..(k-1) : pass_points[j].dist > pass_points[k].dist
  IN  pass_points[k]

NoBearing == [shown |-> FALSE, from |-> NoWp, brg |-> 0, ideal |-> 0, error |-> 0]

\* Lines 298-304: the entry bearing of a pass.
\* Mutant: the error is the angle between the two bearings, at most 180.
BearingError_circular(entry_brg, ideal_brg) ==
  IF Abs(entry_brg - ideal_brg) > FullTurn \div 2
  THEN FullTurn - Abs(entry_brg - ideal_brg)
  ELSE Abs(entry_brg - ideal_brg)

\* Line 303: the entry error of a pass.
BearingError(entry_brg, ideal_brg) == Abs(entry_brg - ideal_brg)

EntryReport(pass_points, corner_wp, waypoints, prev) ==
  IF prev = NoWp THEN NoBearing
  ELSE LET entry_brg == bearing(waypoints[prev].lat, waypoints[prev].lon,
                                pass_points[1].lat, pass_points[1].lon)
           ideal_brg == bearing(waypoints[prev].lat, waypoints[prev].lon,
                                corner_wp.lat, corner_wp.lon)
       IN  [shown |-> TRUE, from |-> prev, brg |-> entry_brg,
            ideal |-> ideal_brg, error |-> BearingError(entry_brg, ideal_brg)]

\* Lines 306-312: the exit bearing of a pass.
ExitReport(pass_points, corner_wp, waypoints, next) ==
  IF next = NoWp THEN NoBearing
  ELSE LET last == pass_points[Len(pass_points)]
           exit_brg == bearing(last.lat, last.lon,
                               waypoints[next].lat, waypoints[next].lon)
           ideal_exit_brg == bearing(corner_wp.lat, corner_wp.lon,
                                     waypoints[next].lat, waypoints[next].lon)
       IN  [shown |-> TRUE, from |-> next, brg |-> exit_brg,
            ideal |-> ideal_exit_brg, error |-> Abs(exit_brg - ideal_exit_brg)]

\* Lines 288-312: what is printed for one pass.
PassReport(pass_points, corner_wp, waypoints, prev, next) ==
  [n       |-> Len(pass_points),
   closest |-> Closest(pass_points).dist,
   wide    |-> ~(Closest(pass_points).dist < WideThreshold),
   entry   |-> EntryReport(pass_points, corner_wp, waypoints, prev),
   exit    |-> ExitReport(pass_points, corner_wp, waypoints, next)]

NoGeometry ==
  [shown |-> FALSE, dist_prev |-> 0, dist_next |-> 0, brg_in |-> 0,
   brg_out |-> 0, turn_angle |-> 0]

\* Lines 270-284: the course geometry block.
Geometry(corner_wp, waypoints, prev, next) ==
  IF prev = NoWp \/ next = NoWp THEN NoGeometry
  ELSE LET p == waypoints[prev]
           n == waypoints[next]
           brg_in  == bearing(p.lat, p.lon, corner_wp.lat, corner_wp.lon)
           brg_out == bearing(corner_wp.lat, corner_wp.lon, n.lat, n.lon)
       IN  [shown |-> TRUE,
            dist_prev |-> haversine_distance(p.lat, p.lon, corner_wp.lat, corner_wp.lon),
            dist_next |-> haversine_distance(corner_wp.lat, corner_wp.lon, n.lat, n.lon),
            brg_in |-> brg_in, brg_out |-> brg_out,
            turn_angle |-> Abs(brg_out - brg_in)]

Min(a, b) == IF a < b THEN a ELSE b

NoRows ==
  [n \in DOMAIN WAYPOINTS |-> [printed |-> FALSE, dist |-> 0, good |-> FALSE]]

NoOut ==
  [error |-> FALSE, warning |-> FALSE, geometry |-> NoGeometry,
   total |-> 0, reports |-> <<>>, more |-> 0, rows |-> NoRows]

RetNone == [kind |-> "None", passes |-> <<>>, results |-> <<>>]

\* Mutant: the error is printed but the analysis goes on with no geometry.
UnknownCornerResult_continue ==
  [ret |-> [kind |-> "passes", passes |-> <<>>, results |-> <<>>],
   out |-> [NoOut EXCEPT !.error = TRUE],
   reached |-> {"find_corner_passes"}]

\* Lines 247-249: the unknown corner is reported and None is returned.
UnknownCornerResult ==
  [ret |-> RetNone, out |-> [NoOut EXCEPT !.error = TRUE], reached |-> {}]

\* analyze_corner_detail: the returned value, the report it prints and the
\* functions it reaches.
analyze_corner_detail(cs, corner_name, waypoints) ==
  IF corner_name \notin DOMAIN waypoints
  THEN UnknownCornerResult
  ELSE LET corner_wp == waypoints[corner_name]
           prev   == prev_wp(corner_name)
           next   == next_wp(corner_name)
           passes == find_corner_passes(cs, corner_wp, DefaultSearchRadius)
           geo    == Geometry(corner_wp, waypoints, prev, next)
           shown  == SubSeq(passes, 1, Min(Len(passes), PassLimit))
       IN  [ret |-> [kind |-> "passes", passes |-> passes, results |-> <<>>],
            out |-> [NoOut EXCEPT
                       !.warning = ~InOrder(corner_name),
                       !.geometry = geo,
                       !.total = Len(passes),
                       !.reports = [k \in 1..Len(shown) |->
                                      PassReport(shown[k], corner_wp, waypoints, prev, next)],
                       !.more = IF Len(passes) > PassLimit
                                THEN Len(passes) - PassLimit ELSE 0],
            reached |->
              {"find_corner_passes"}
                \cup (IF cs # <<>> \/ geo.shown THEN {"haversine_distance"} ELSE {})
                \cup (IF geo.shown \/ (passes # <<>> /\ (prev # NoWp \/ next # NoWp))
                      THEN {"bearing"} ELSE {})]

(***************************************************************************)
(* analyze_file                                                            *)
(***************************************************************************)
\* The values of --detailed-corner; the empty string is the absent option.
CornerArgs == {"", "NE", "ne", "gate", "se", "mid"}

\* str.upper() on the option values.
Upper(s) ==
  CASE s = "ne"   -> "NE"
    [] s = "gate" -> "GATE"
    [] s = "se"   -> "SE"
    [] s = "mid"  -> "MID"
    [] OTHER      -> s

\* Lines 408-411: the table of closest approaches.
Rows(waypoint_results) ==
  [n \in DOMAIN WAYPOINTS |->
     [printed |-> TRUE, dist |-> waypoint_results[n].min_distance,
      good |-> waypoint_results[n].min_distance < WideThreshold]]

\* Mutant: an empty track is analysed like any other.
NoData_never(cs) == FALSE

\* Line 396: "if not coords".
NoData(cs) == cs = <<>>

\* analyze_file after load_gps_data has returned the track cs.
analyze_file(cs, detailed_corner) ==
  IF NoData(cs)
  THEN [ret |-> RetNone, out |-> NoOut, reached |-> {}]
  ELSE LET waypoint_results == analyze_waypoint_proximity(cs, WAYPOINTS)
           detail == IF detailed_corner # ""
                     THEN analyze_corner_detail(cs, Upper(detailed_corner), WAYPOINTS)
                     ELSE [ret |-> RetNone, out |-> NoOut, reached |-> {}]
       IN  [ret |-> [kind |-> "file", passes |-> <<>>, results |-> waypoint_results],
            out |-> [detail.out EXCEPT !.rows = Rows(waypoint_results)],
            reached |-> {"analyze_waypoint_proximity"}
                          \cup (IF cs # <<>> THEN {"haversine_distance"} ELSE {})
                          \cup (IF detailed_corner # ""
                                THEN {"analyze_corner_detail"} ELSE {})
                          \cup detail.reached]

(***************************************************************************)
(* The state machine: a track, and the analysis call made on it.           *)
(***************************************************************************)
\* Reference-point names analyze_corner_detail is called with.
DetailNames == {"GATE", "SW", "NW", "NE", "SE", "MID", "XX"}

(***************************************************************************)
(* Telemetry log analysis (scripts/analyze_bin_telemetry.py).  Timestamps  *)
(* are integers in milliseconds; a message text is the tuple of its        *)
(* characters; an optional number is <<>> for None and <<v>> for v.        *)
(***************************************************************************)
\* A record without attributes; fields names the attributes a record has.
Blank ==
  [type |-> "", ts |-> 0, fields |-> {}, Message |-> <<>>,
   WpDist |-> 0, Dist |-> 0, BrErr |-> 0, NavBrg |-> 0, TBrg |-> 0,
   AltErr |-> 0, AltE |-> 0, Status |-> 0, NSats |-> 0, HDop |-> 0,
   Mode |-> 0, Subsys |-> 0, ECode |-> 0]

MsgRecord(text) ==
  [Blank EXCEPT !.type = "MSG", !.fields = {"Message"}, !.Message = text]

\* The kinds of record a log is made of: script and system messages, a
\* warning in lower case, a MSG record without text, a mode change, an error
\* and navigation records in both attribute namings.
Templates ==
  { MsgRecord(<<"L", "A", "P", " ", "2">>),
    MsgRecord(<<"F", "L", "A", "P", "S">>),
    MsgRecord(<<"g", "a", "t", "e", " ", "e", "r", "r">>),
    [Blank EXCEPT !.type = "MODE", !.fields = {"Mode"}, !.Mode = 10],
    [Blank EXCEPT !.type = "ERR", !.fields = {"Subsys", "ECode"},
                  !.Subsys = 12, !.ECode = 1],
    [Blank EXCEPT !.type = "MSG"],
    [Blank EXCEPT !.type = "NTUN", !.fields = {"Dist", "NavBrg", "TBrg", "AltE"},
                  !.Dist = 120, !.NavBrg = 90, !.TBrg = 85, !.AltE = 3],
    [Blank EXCEPT !.type = "NTUN", !.fields = {"WpDist", "Dist", "BrErr", "AltErr"},
                  !.WpDist = 0, !.Dist = 45, !.BrErr = 7, !.AltErr = 2],
    [Blank EXCEPT !.type = "TECS"] }

\* Time between a record and the one before it, in milliseconds.
LogDeltas == {1000, 2100}

RECURSIVE Sum(_, _)
Sum(f, n) == IF n = 0 THEN 0 ELSE f[n] + Sum(f, n - 1)

\* A log: records of the given kinds in the order written, each later than
\* the one before it by the given time.
LogOf(kinds, deltas) ==
  [i \in 1..Len(kinds) |-> [kinds[i] EXCEPT !.ts = Sum(deltas, i)]]

hasattr(msg, a) == a \in msg.fields

\* getattr(msg, a, None).
getattr(msg, a) == IF hasattr(msg, a) THEN <<msg[a]>> ELSE <<>>

\* x or y, on optional numbers: None and 0 are false.
Or(x, y) == IF x # <<>> /\ x[1] # 0 THEN x ELSE y

\* 'kw' in text.
Contains(text, kw) ==
  \E i \in 1..(Len(text) - Len(kw) + 1) : SubSeq(text, i, i + Len(kw) - 1) = kw

\* Line 54: the words that make a message a script message.
Keywords ==
  { <<"P", "Y", "L", "O", "N">>, <<"L", "A", "P">>,
    <<"R", "A", "C", "E">>, <<"G", "A", "T", "E">> }

\* Mutant: the log is read on from where the last analysis left it.
rewind_none(position) == position

\* mlog.rewind(): the read position goes back to the start of the log.
rewind(position) == 0

\* Lines 44-60 of analyze_script_messages: the loop, from record i on.
RECURSIVE ScriptScan(_, _, _)
ScriptScan(log, i, script_messages) ==
  IF i > Len(log) THEN script_messages
  ELSE IF log[i].type # "MSG" \/ ~hasattr(log[i], "Message")
       THEN ScriptScan(log, i + 1, script_messages)
       ELSE IF \E kw \in Keywords : Contains(log[i].Message, kw)
            THEN ScriptScan(log, i + 1,
                            Append(script_messages,
                                   [time |-> log[i].ts, message |-> log[i].Message]))
            ELSE ScriptScan(log, i + 1, script_messages)

analyze_script_messages(log, position) ==
  ScriptScan(log, rewind(position) + 1, <<>>)

\* The number of binary digits of n.
RECURSIVE BitLength(_)
BitLength(n) == IF n = 0 THEN 0 ELSE 1 + BitLength(n \div 2)

\* The fraction f / scale after its next n binary digits are taken off: what
\* is left of it, in units of the last digit taken, and that digit.
RECURSIVE BinaryDigits(_, _, _, _)
BinaryDigits(f, n, last, scale) ==
  IF n = 0 THEN [f |-> f, last |-> last]
  ELSE IF 2 * f >= scale
       THEN BinaryDigits(2 * f - scale, n - 1, 1, scale)
       ELSE BinaryDigits(2 * f, n - 1, 0, scale)

\* The place of the first binary digit 1 of the fraction f / scale, f > 0.
RECURSIVE FirstDigit(_, _)
FirstDigit(f, scale) ==
  IF 2 * f >= scale THEN 1 ELSE 1 + FirstDigit(2 * f, scale)

\* A timestamp of t milliseconds is the float nearest to t / 1000 seconds.
\* The number of binary digits that float holds after the point: a float
\* holds 53 digits from its first digit 1 on.
FractionBits(t) ==
  IF t \div 1000 > 0 THEN 53 - BitLength(t \div 1000)
  ELSE IF t % 1000 = 0 THEN 53
       ELSE 52 + FirstDigit(t % 1000, 1000)

\* The float of t less t / 1000 seconds, in thousandths of the last binary
\* digit the float holds: the nearest float is taken, the one with an even
\* last digit when two are as near.
FloatError(t) ==
  LET rest == BinaryDigits(t % 1000, FractionBits(t), (t \div 1000) % 2, 1000)
  IN  IF 2 * rest.f > 1000 \/ (2 * rest.f = 1000 /\ rest.last = 1)
      THEN 1000 - rest.f
      ELSE 0 - rest.f

RECURSIVE Pow2(_)
Pow2(k) == IF k = 0 THEN 1 ELSE 2 * Pow2(k - 1)

\* The binary digit the two errors are compared in: the last one of the
\* earlier timestamp, and no less than the 53rd.
GapBits(earlier) ==
  IF FractionBits(earlier) > 53 THEN FractionBits(earlier) ELSE 53

\* For two timestamps whose milliseconds are 2000 apart: the exact
\* difference of the two floats less 2.0, in thousandths of the digit
\* GapBits.
ErrorGap(later, earlier) ==
  FloatError(later) * Pow2(GapBits(earlier) - FractionBits(later))
    - FloatError(earlier) * Pow2(GapBits(earlier) - FractionBits(earlier))

\* Half the step between 2.0 and the float before it, in the same unit.  A
\* difference is rounded to the nearest float: it comes out below 2.0 when
\* it is more than this half step below 2.0.
HalfStep(earlier) == 1000 * Pow2(GapBits(earlier) - 53)

\* Line 121: sample_interval = 2.0 seconds.
SampleInterval == 2000

\* Mutant: every record is sampled.
TooSoon_never(timestamp, last_sample_time) == FALSE

\* Line 133: the record comes too soon after the last one that passed.  The
\* test subtracts two floats: 4.1 - 2.1 is 1.9999999999999996, below 2.0.
TooSoon(timestamp, last_sample_time) ==
  \/ timestamp - last_sample_time < SampleInterval
  \/ /\ timestamp - last_sample_time = SampleInterval
     /\ ErrorGap(timestamp, last_sample_time) < 0 - HalfStep(last_sample_time)

\* Lines 140-152: the sample made of an NTUN record.
Sample(msg) ==
  [time |-> msg.ts,
   wp_dist |-> Or(getattr(msg, "WpDist"), getattr(msg, "Dist")),
   bearing_error |->
     IF getattr(msg, "BrErr") = <<>> /\ hasattr(msg, "NavBrg") /\ hasattr(msg, "TBrg")
     THEN <<msg.NavBrg - msg.TBrg>>
     ELSE getattr(msg, "BrErr"),
   altitude_error |-> Or(getattr(msg, "AltErr"), getattr(msg, "AltE"))]

\* Lines 124-154 of analyze_navigation_target: the loop, from record i on;
\* clock lists the positions of the records that set last_sample_time.
RECURSIVE NavScan(_, _, _, _, _)
NavScan(log, i, last_sample_time, targets, clock) ==
  IF i > Len(log) THEN [targets |-> targets, clock |-> clock]
  ELSE IF log[i].type \notin {"NTUN", "TECS"}
       THEN NavScan(log, i + 1, last_sample_time, targets, clock)
       ELSE IF TooSoon(log[i].ts, last_sample_time)
            THEN NavScan(log, i + 1, last_sample_time, targets, clock)
            ELSE NavScan(log, i + 1, log[i].ts,
                         IF log[i].type = "NTUN"
                         THEN Append(targets, Sample(log[i])) ELSE targets,
                         Append(clock, i))

analyze_navigation_target(log, position) ==
  NavScan(log, rewind(position) + 1, 0, <<>>, <<>>)

\* Lines 87-100 of analyze_mode_changes: the loop, from record i on.
RECURSIVE ModeScan(_, _, _)
ModeScan(log, i, modes) ==
  IF i > Len(log) THEN modes
  ELSE IF log[i].type # "MODE" \/ ~hasattr(log[i], "Mode")
       THEN ModeScan(log, i + 1, modes)
       ELSE ModeScan(log, i + 1,
                     Append(modes, [time |-> log[i].ts, mode |-> log[i].Mode]))

analyze_mode_changes(log, position) ==
  ModeScan(log, rewind(position) + 1, <<>>)

LowerCase ==
  <<"a", "b", "c", "d", "e", "f", "g", "h", "i", "j", "k", "l", "m",
    "n", "o", "p", "q", "r", "s", "t", "u", "v", "w", "x", "y", "z">>

UpperCase ==
  <<"A", "B", "C", "D", "E", "F", "G", "H", "I", "J", "K", "L", "M",
    "N", "O", "P", "Q", "R", "S", "T", "U", "V", "W", "X", "Y", "Z">>

\* The capital of each small letter.
UpperOf ==
  [c \in { LowerCase[k] : k \in 1..Len(LowerCase) } |->
     UpperCase[CHOOSE k \in 1..Len(LowerCase) : LowerCase[k] = c]]

\* Line 202: text.upper().
UpperText(text) ==
  [k \in 1..Len(text) |->
     IF text[k] \in DOMAIN UpperOf THEN UpperOf[text[k]] ELSE text[k]]

\* f"{n}" on an integer: its decimal digits.
RECURSIVE Str(_)
Str(n) ==
  IF n < 0 THEN <<"-">> \o Str(0 - n)
  ELSE IF n < 10
       THEN << <<"0", "1", "2", "3", "4", "5", "6", "7", "8", "9">>[n + 1] >>
       ELSE Str(n \div 10) \o Str(n % 10)

\* Line 198: f"Subsys={msg.Subsys}, ECode={msg.ECode}".
ErrText(msg) ==
  <<"S", "u", "b", "s", "y", "s", "=">> \o Str(msg.Subsys)
    \o <<",", " ", "E", "C", "o", "d", "e", "=">> \o Str(msg.ECode)

\* Line 202: the words that make a message a warning.
IssueKeywords ==
  { <<"E", "R", "R", "O", "R">>, <<"F", "A", "I", "L">>,
    <<"W", "A", "R", "N", "I", "N", "G">>, <<"E", "R", "R">> }

\* Lines 186-209 of analyze_errors_and_warnings: the loop, from record i on.
RECURSIVE IssueScan(_, _, _)
IssueScan(log, i, issues) ==
  IF i > Len(log) THEN issues
  ELSE IF log[i].type = "ERR"
       THEN IF hasattr(log[i], "Subsys") /\ hasattr(log[i], "ECode")
            THEN IssueScan(log, i + 1,
                           Append(issues, [time |-> log[i].ts, type |-> "ERROR",
                                           message |-> ErrText(log[i])]))
            ELSE IssueScan(log, i + 1, issues)
       ELSE IF log[i].type = "MSG" /\ hasattr(log[i], "Message")
                 /\ \E kw \in IssueKeywords :
                       Contains(UpperText(log[i].Message), kw)
            THEN IssueScan(log, i + 1,
                           Append(issues, [time |-> log[i].ts, type |-> "WARNING",
                                           message |-> log[i].Message]))
            ELSE IssueScan(log, i + 1, issues)

analyze_errors_and_warnings(log, position) ==
  IssueScan(log, rewind(position) + 1, <<>>)

(***************************************************************************)
(* Writing a track as KML (scripts/bin_to_kmz.py) and reading it back      *)
(* (parse_kml).  A coordinate is a decimal number: sign, whole degrees and *)
(* fraction in units of 1e-9 degree; an altitude is in millimetres.  The   *)
(* value of a point is the float nearest to that decimal number.  A number *)
(* written with 8 decimals keeps its fraction in units of 1e-8, a number   *)
(* written with 2 decimals is in centimetres.                              *)
(***************************************************************************)
Deg(neg, deg, frac) == [neg |-> neg, deg |-> deg, frac |-> frac]

\* The same for a number below 1: the 53 digits of a float start at the
\* first binary digit that is 1.
RECURSIVE LeadingDigits(_, _)
LeadingDigits(f, scale) ==
  IF 2 * f >= scale THEN BinaryDigits(2 * f - scale, 52, 1, scale)
  ELSE LeadingDigits(2 * f, scale)

\* Where the float nearest to whole + frac / scale lies: 1 above that
\* number, -1 below it, 0 on it.  A float holds 53 binary digits and the
\* nearest one is taken, the one with an even last digit when two are as near.
FloatSide(whole, frac, scale) ==
  IF whole = 0 /\ frac = 0 THEN 0
  ELSE LET rest == IF whole > 0
                   THEN BinaryDigits(frac, 53 - BitLength(whole), whole % 2, scale)
                   ELSE LeadingDigits(frac, scale)
       IN  CASE rest.f = 0 -> 0
             [] 2 * rest.f > scale -> 1
             [] 2 * rest.f < scale -> 0 - 1
             [] OTHER -> IF rest.last = 1 THEN 1 ELSE 0 - 1

\* The format rounds the float, not the decimal number: to the nearest
\* digit, and on a float that lies halfway to the even digit.  q holds the
\* digits kept, d is the digit dropped, nothing comes after d.
RoundsUp(q, d, side) ==
  d > 5 \/ (d = 5 /\ (side = 1 \/ (side = 0 /\ q % 2 = 1)))

\* f"{x:.8f}": the digits of x rounded to 8 decimals, with the sign of x.
Format8(x) ==
  LET q == x.frac \div 10
      r == IF RoundsUp(q, x.frac % 10, FloatSide(x.deg, x.frac, 1000000000))
           THEN q + 1 ELSE q
  IN  IF r = 100000000
      THEN [neg |-> x.neg, int |-> x.deg + 1, dec |-> 0]
      ELSE [neg |-> x.neg, int |-> x.deg, dec |-> r]

\* f"{alt:.2f}": the altitude rounded to centimetres.
Format2(alt) ==
  LET a == IF alt < 0 THEN 0 - alt ELSE alt
      q == a \div 10
      r == IF RoundsUp(q, a % 10, FloatSide(a \div 1000, a % 1000, 1000))
           THEN q + 1 ELSE q
  IN  IF alt < 0 THEN 0 - r ELSE r

\* float() of a text with 8 decimals; "-0.00000000" reads as zero.
Float8(t) ==
  Deg(t.neg /\ (t.int # 0 \/ t.dec # 0), t.int, 10 * t.dec)

\* float() of a text with 2 decimals, in millimetres.
Float2(t) == 10 * t

\* Lines 47-59 of bin_to_kmz.py: the pylons and the course waypoints the
\* writer adds to the document.
pylons ==
  << [name |-> "West Pylon", lat |-> Deg(FALSE, 32, 763148300),
      lon |-> Deg(TRUE, 117, 214143100)],
     [name |-> "East Pylon", lat |-> Deg(FALSE, 32, 763262000),
      lon |-> Deg(TRUE, 117, 213410800)] >>

waypoints_kml ==
  << [name |-> "Start Gate", lat |-> Deg(FALSE, 32, 763007400),
      lon |-> Deg(TRUE, 117, 213750300)],
     [name |-> "SW Corner", lat |-> Deg(FALSE, 32, 763044600),
      lon |-> Deg(TRUE, 117, 214127200)],
     [name |-> "NW Corner", lat |-> Deg(FALSE, 32, 763389700),
      lon |-> Deg(TRUE, 117, 214205000)],
     [name |-> "NE Corner", lat |-> Deg(FALSE, 32, 763516000),
      lon |-> Deg(TRUE, 117, 213448600)],
     [name |-> "SE Corner", lat |-> Deg(FALSE, 32, 763107800),
      lon |-> Deg(TRUE, 117, 213376200)] >>

\* Lines 96-104, 124-132: the Point placemark of a pylon or waypoint, with the
\* text "lon,lat,0".
PointPlacemark(m) ==
  [name |-> m.name, geometry |-> "Point",
   coordinates |-> << [lon |-> Format8(m.lon), lat |-> Format8(m.lat), alt |-> 0] >>]

\* Lines 134-149: the track placemark, one "lon,lat,alt" line per point.
TrackPlacemark(points) ==
  [name |-> "GPS Track", geometry |-> "LineString",
   coordinates |-> [i \in 1..Len(points) |->
                      [lon |-> Format8(points[i].lon), lat |-> Format8(points[i].lat),
                       alt |-> Format2(points[i].alt)]]]

\* The Placemark elements of the document, in document order.
create_kml_from_gps_data(points, include_waypoints) ==
  (IF include_waypoints
   THEN [i \in 1..Len(pylons) |-> PointPlacemark(pylons[i])]
          \o [i \in 1..Len(waypoints_kml) |-> PointPlacemark(waypoints_kml[i])]
   ELSE <<>>)
    \o << TrackPlacemark(points) >>

\* Lines 116-125 of parse_kml: the points of the lines of one coordinates text.
ParseLines(lines) ==
  [i \in 1..Len(lines) |->
     [lat |-> Float8(lines[i].lat), lon |-> Float8(lines[i].lon),
      alt |-> Float2(lines[i].alt)]]

\* Lines 113-127 of parse_kml: the points of every placemark that has a
\* coordinates element, in document order.
RECURSIVE parse_kml(_)
parse_kml(placemarks) ==
  IF placemarks = <<>> THEN <<>>
  ELSE ParseLines(Head(placemarks).coordinates) \o parse_kml(Tail(placemarks))

\* The points handed to the writer: a point 8 decimals hold exactly, one at
\* a pylon, points whose ninth decimal is rounded away, and points whose
\* ninth decimal, or third decimal of the altitude, is a 5: on floats that
\* lie halfway, below and above the decimal number.
KmlPoints ==
  { [lat |-> Deg(FALSE, 32, 763300000), lon |-> Deg(TRUE, 117, 213600000), alt |-> 12346],
    [lat |-> Deg(FALSE, 32, 763148300), lon |-> Deg(TRUE, 117, 214143100), alt |-> 0],
    [lat |-> Deg(FALSE, 0, 14), lon |-> Deg(TRUE, 0, 26), alt |-> 0 - 3456],
    [lat |-> Deg(FALSE, 89, 999999996), lon |-> Deg(TRUE, 0, 4), alt |-> 4],
    [lat |-> Deg(TRUE, 12, 500000000), lon |-> Deg(FALSE, 179, 999999990), alt |-> 100000],
    [lat |-> Deg(FALSE, 0, 1953125), lon |-> Deg(TRUE, 32, 763300005), alt |-> 125],
    [lat |-> Deg(TRUE, 0, 5859375), lon |-> Deg(FALSE, 117, 213600005), alt |-> 0 - 1005],
    [lat |-> Deg(FALSE, 89, 999999995), lon |-> Deg(FALSE, 0, 15), alt |-> 375] }

\* The GPS status codes of the records of a log: the six codes that have a
\* fix-type counter, and the codes 1 and 7 that have none.
GpsStatuses == 0..7

\* A GPS record with a status, 10 satellites and an HDop of 0.8 (in 1/100).
GpsRecord(status) ==
  [Blank EXCEPT !.type = "GPS", !.fields = {"Status", "NSats", "HDop"},
                !.Status = status, !.NSats = 10, !.HDop = 80]

\* The records of a log with GPS data: GPS records of every status, one
\* without satellite count, one without status, a script message, a mode
\* record without mode and an error record without code.
GpsTemplates ==
  { GpsRecord(status) : status \in GpsStatuses }
    \cup { [Blank EXCEPT !.type = "GPS", !.fields = {"Status"}, !.Status = 3],
           [Blank EXCEPT !.type = "GPS", !.fields = {"NSats"}, !.NSats = 7],
           MsgRecord(<<"L", "A", "P">>),
           [Blank EXCEPT !.type = "MODE"],
           [Blank EXCEPT !.type = "ERR", !.fields = {"Subsys"}, !.Subsys = 3] }

\* Time between two records of a log with GPS data, in milliseconds.
GpsDeltas == {200}

\* Lines 229-238: the statistics before the scan.
NoStats ==
  [no_fix |-> 0, fix_2d |-> 0, fix_3d |-> 0, dgps |-> 0, rtk_float |-> 0,
   rtk_fixed |-> 0, num_sats |-> <<>>, hdop |-> <<>>]

\* Mutant: a status without a counter of its own is counted as no fix.
Bucket_else(status) ==
  CASE status = 2 -> "2d_fix"
    [] status = 3 -> "3d_fix"
    [] status = 4 -> "dgps"
    [] status = 5 -> "rtk_float"
    [] status = 6 -> "rtk_fixed"
    [] OTHER -> "no_fix"

\* Lines 251-262: the counter a status increments, "" for none.
Bucket(status) ==
  CASE status = 0 -> "no_fix"
    [] status = 2 -> "2d_fix"
    [] status = 3 -> "3d_fix"
    [] status = 4 -> "dgps"
    [] status = 5 -> "rtk_float"
    [] status = 6 -> "rtk_fixed"
    [] OTHER -> ""

\* gps_stats[bucket] += 1.
Count(gps_stats, bucket) ==
  CASE bucket = "no_fix" -> [gps_stats EXCEPT !.no_fix = @ + 1]
    [] bucket = "2d_fix" -> [gps_stats EXCEPT !.fix_2d = @ + 1]
    [] bucket = "3d_fix" -> [gps_stats EXCEPT !.fix_3d = @ + 1]
    [] bucket = "dgps" -> [gps_stats EXCEPT !.dgps = @ + 1]
    [] bucket = "rtk_float" -> [gps_stats EXCEPT !.rtk_float = @ + 1]
    [] bucket = "rtk_fixed" -> [gps_stats EXCEPT !.rtk_fixed = @ + 1]
    [] OTHER -> gps_stats

\* Lines 246-267: what one GPS record adds to the statistics.
GpsRecordStats(gps_stats, msg) ==
  IF ~hasattr(msg, "Status") THEN gps_stats
  ELSE LET num_sats == IF hasattr(msg, "NSats") THEN msg.NSats ELSE 0
           hdop == IF hasattr(msg, "HDop") THEN msg.HDop ELSE 0
           counted == Count(gps_stats, Bucket(msg.Status))
       IN  [counted EXCEPT
              !.num_sats = IF num_sats > 0 THEN Append(@, num_sats) ELSE @,
              !.hdop = IF hdop > 0 THEN Append(@, hdop) ELSE @]

\* Lines 240-270 of analyze_gps_quality: the loop, from record i on.
RECURSIVE GpsScan(_, _, _)
GpsScan(log, i, gps_stats) ==
  IF i > Len(log) THEN gps_stats
  ELSE IF log[i].type # "GPS" THEN GpsScan(log, i + 1, gps_stats)
       ELSE GpsScan(log, i + 1, GpsRecordStats(gps_stats, log[i]))

\* Lines 272-279: the sum of the six counters.
total_samples(gps_stats) ==
  gps_stats.no_fix + gps_stats.fix_2d + gps_stats.fix_3d + gps_stats.dgps
    + gps_stats.rtk_float + gps_stats.rtk_fixed

analyze_gps_quality(log, position) ==
  LET gps_stats == GpsScan(log, rewind(position) + 1, NoStats)
  IN  [gps_stats |-> gps_stats, total_samples |-> total_samples(gps_stats)]

\* No geometry function has been called yet.
NoGeo == [fn |-> "none", p1 |-> "", p2 |-> "", kind |-> "none", value |-> 0]

\* No telemetry analysis has run yet.
NoTele == [fn |-> "none", entered |-> 0, result |-> <<>>, clock |-> <<>>]

\* No document has been written yet.
NoKml == [written |-> FALSE, include_waypoints |-> FALSE, placemarks |-> <<>>]

\* Nothing has been parsed yet.
NoParsed == [done |-> FALSE, coords_list |-> <<>>]

GeoIdle == geom = NoGeo

LogIdle == mlog = <<>> /\ pos = 0 /\ tele = NoTele

KmlIdle == gps_points = <<>> /\ kml = NoKml /\ parsed = NoParsed

(***************************************************************************)
(* What a call changes.  The names of a function refer to objects: to the  *)
(* track it is given (the list or one of its points), to the reference     *)
(* points it is given (the dictionary or one of its entries), or to an     *)
(* object the call has made itself.  A statement that appends to a list or *)
(* assigns to an item changes the object its name refers to.               *)
(***************************************************************************)
\* Lines 189-206: waypoints and wp_data (line 192) are the dictionary given
\* and its entries, point (line 196) is a point of the track, results is the
\* dictionary made on line 191 and returned.
analyze_waypoint_proximity_names ==
  [coords |-> "coords", waypoints |-> "waypoints", wp_data |-> "waypoints",
   point |-> "coords", results |-> "new"]

\* Lines 211-242: corner_wp is an entry of the reference points, point (line
\* 217) a point of the track; corner_points (line 216), passes (line 232)
\* and current_pass (lines 233, 239) are lists made by the call, and the
\* entries appended on line 221 are dictionaries made by the call.
find_corner_passes_names ==
  [coords |-> "coords", corner_wp |-> "waypoints", point |-> "coords",
   corner_points |-> "new", passes |-> "new", current_pass |-> "new"]

\* Lines 245-317: corner_wp, prev_wp and next_wp (lines 251, 260, 261) are
\* entries of the dictionary given; corner_order (line 254) is made by the
\* call; passes is the list find_corner_passes returns, pass_points and
\* closest (lines 288-289) are in it.
analyze_corner_detail_names ==
  [coords |-> "coords", waypoints |-> "waypoints", corner_wp |-> "waypoints",
   prev_wp |-> "waypoints", next_wp |-> "waypoints", corner_order |-> "new",
   passes |-> "new", pass_points |-> "new", closest |-> "new"]

\* Lines 388-421: coords is the track loaded on line 395, WAYPOINTS the
\* module's dictionary that the two analyses take by default;
\* waypoint_results is what analyze_waypoint_proximity returns.
analyze_file_names ==
  [coords |-> "coords", WAYPOINTS |-> "waypoints", waypoint_results |-> "new"]

\* Mutant: corner_points is the track itself (corner_points = coords), so
\* line 221 appends to the track.
Names_aliased(fn) ==
  CASE fn = "analyze_waypoint_proximity" -> analyze_waypoint_proximity_names
    [] fn = "find_corner_passes" ->
         [find_corner_passes_names EXCEPT !.corner_points = "coords"]
    [] fn = "analyze_corner_detail" -> analyze_corner_detail_names
    [] fn = "analyze_file" -> analyze_file_names

\* The object each name of a function refers to.
Names(fn) ==
  CASE fn = "analyze_waypoint_proximity" -> analyze_waypoint_proximity_names
    [] fn = "find_corner_passes" -> find_corner_passes_names
    [] fn = "analyze_corner_detail" -> analyze_corner_detail_names
    [] fn = "analyze_file" -> analyze_file_names

\* The statements of a function that change an object, by line and by the
\* name they change: results[wp_name] = ... on line 203; the append calls
\* on lines 221, 236, 238 and 240.  analyze_corner_detail and analyze_file
\* only read and print.
Stores(fn) ==
  CASE fn = "analyze_waypoint_proximity" -> << [line |-> 203, name |-> "results"] >>
    [] fn = "find_corner_passes" ->
         << [line |-> 221, name |-> "corner_points"],
            [line |-> 236, name |-> "current_pass"],
            [line |-> 238, name |-> "passes"],
            [line |-> 240, name |-> "passes"] >>
    [] fn = "analyze_corner_detail" -> << >>
    [] fn = "analyze_file" -> << >>

\* The calls a function makes with an object for argument, by line, with
\* the name passed for each parameter: lines 264, 402 and 415 (the last two
\* leave waypoints to its default, the module's WAYPOINTS).  The calls of
\* haversine_distance and bearing pass numbers.
Calls(fn) ==
  CASE fn = "analyze_waypoint_proximity" -> << >>
    [] fn = "find_corner_passes" -> << >>
    [] fn = "analyze_corner_detail" ->
         << [line |-> 264, fn |-> "find_corner_passes",
             params |-> <<"coords", "corner_wp">>,
             args |-> <<"coords", "corner_wp">>] >>
    [] fn = "analyze_file" ->
         << [line |-> 402, fn |-> "analyze_waypoint_proximity",
             params |-> <<"coords", "waypoints">>,
             args |-> <<"coords", "WAYPOINTS">>],
            [line |-> 415, fn |-> "analyze_corner_detail",
             params |-> <<"coords", "waypoints">>,
             args |-> <<"coords", "WAYPOINTS">>] >>

\* The objects a call of fn changes: those its own statements change, and
\* those passed to a function that changes the object of its parameter.
RECURSIVE Written(_)
Written(fn) ==
  { Names(fn)[Stores(fn)[k].name] : k \in 1..Len(Stores(fn)) }
    \cup UNION { { Names(fn)[Calls(fn)[c].args[a]] :
                     a \in { b \in 1..Len(Calls(fn)[c].args) :
                               Names(Calls(fn)[c].fn)[Calls(fn)[c].params[b]]
                                 \in Written(Calls(fn)[c].fn) } } :
                 c \in 1..Len(Calls(fn)) }

\* The track after a call: as it was when no statement of the call changes
\* it.  What a statement would write to it is not followed: any other track
\* may result.
coords_after(fn, cs) ==
  IF "coords" \in Written(fn) THEN CallTracks \ {cs} ELSE {cs}

\* The reference points after a call, likewise.
course_after(fn, waypoints) ==
  IF "waypoints" \in Written(fn)
  THEN { [n \in DOMAIN waypoints \ {d} |-> waypoints[n]] : d \in DOMAIN waypoints }
  ELSE {waypoints}

\* The waypoint dictionaries a caller passes: all its reference points, or
\* the five course waypoints only.
WaypointSetsOf(c) == {c, [n \in DOMAIN WAYPOINTS |-> c[n]]}

NoCall ==
  /\ call = [fn |-> "none", name |-> "", radius |-> 0, wps |-> {},
             after |-> "none"]
  /\ ret = [kind |-> "none", passes |-> <<>>, results |-> <<>>]
  /\ out = NoOut
  /\ reached = {}
  /\ coords0 = coords
  /\ course = WAYPOINTS_EXT

\* A track built from runs, as flown over several laps.
Init ==
  /\ coords \in Tracks
  /\ NoCall
  /\ GeoIdle /\ LogIdle /\ KmlIdle

\* Any short track.
InitShort ==
  /\ coords \in ShortTracks
  /\ NoCall
  /\ GeoIdle /\ LogIdle /\ KmlIdle

\* A call is made on a fresh track; on a short track calls may be repeated.
CanCall == call.fn = "none" \/ Len(coords) <= MaxTrackLen

\* "first" for the first call on a track, "later" for a call that follows
\* another one.
After == IF call.fn = "none" THEN "first" ELSE "later"

\* What every analysis call leaves behind, besides its result.
Framed(fn) ==
  /\ coords' \in coords_after(fn, coords)
  /\ course' \in course_after(fn, course)
  /\ UNCHANGED <<coords0, geoVars, logVars, kmlVars>>


FindCornerPasses ==
  /\ CanCall
  /\ \E name \in DOMAIN course, r \in Radii :
       /\ call' = [fn |-> "find_corner_passes", name |-> name, radius |-> r,
                   wps |-> {}, after |-> After]
       /\ ret' = [kind |-> "passes",
                  passes |-> find_corner_passes(coords, course[name], r),
                  results |-> <<>>]
       /\ out' = NoOut
       /\ reached' = IF coords = <<>> THEN {} ELSE {"haversine_distance"}
       /\ Framed("find_corner_passes")

\* find_corner_passes called with a search radius that is not positive.
FindCornerPassesNonPositive ==
  /\ CanCall
  /\ \E name \in DOMAIN course, r \in NonPositiveRadii :
       /\ call' = [fn |-> "find_corner_passes", name |-> name, radius |-> r,
                   wps |-> {}, after |-> After]
       /\ ret' = [kind |-> "passes",
                  passes |-> find_corner_passes(coords, course[name], r),
                  results |-> <<>>]
       /\ out' = NoOut
       /\ reached' = IF coords = <<>> THEN {} ELSE {"haversine_distance"}
       /\ Framed("find_corner_passes")

AnalyzeWaypointProximity ==
  /\ CanCall
  /\ \E waypoints \in WaypointSetsOf(course) :
       /\ call' = [fn |-> "analyze_waypoint_proximity", name |-> "",
                   radius |-> 0, wps |-> DOMAIN waypoints, after |-> After]
       /\ ret' = [kind |-> "results", passes |-> <<>>,
                  results |-> analyze_waypoint_proximity(coords, waypoints)]
       /\ out' = NoOut
       /\ reached' = IF coords = <<>> THEN {} ELSE {"haversine_distance"}
       /\ Framed("analyze_waypoint_proximity")

AnalyzeCornerDetail ==
  /\ CanCall
  /\ \E corner_name \in DetailNames, waypoints \in WaypointSetsOf(course) :
       LET r == analyze_corner_detail(coords, corner_name, waypoints)
       IN  /\ call' = [fn |-> "analyze_corner_detail", name |-> corner_name,
                       radius |-> DefaultSearchRadius, wps |-> DOMAIN waypoints,
                       after |-> After]
           /\ ret' = r.ret
           /\ out' = r.out
           /\ reached' = r.reached
           /\ Framed("analyze_corner_detail")

AnalyzeFile ==
  /\ CanCall
  /\ \E detailed_corner \in CornerArgs :
       LET r == analyze_file(coords, detailed_corner)
       IN  /\ call' = [fn |-> "analyze_file", name |-> detailed_corner,
                       radius |-> 0, wps |-> DOMAIN WAYPOINTS,
                       after |-> After]
           /\ ret' = r.ret
           /\ out' = r.out
           /\ reached' = r.reached
           /\ Framed("analyze_file")

\* Pass detection and the corner report, on tracks built from runs.
Next ==
  \/ FindCornerPasses
  \/ AnalyzeCornerDetail

Spec == Init /\ [][Next]_vars

\* Closest approach and the per-file analysis, on short tracks.
NextProximity ==
  \/ AnalyzeWaypointProximity
  \/ AnalyzeFile

SpecProximity == InitShort /\ [][NextProximity]_vars

\* bearing() on two points of the course tables or on two far points.
Bearing ==
  /\ \/ \E n1 \in PointNames, n2 \in PointNames :
          geom' = [fn |-> "bearing", p1 |-> n1, p2 |-> n2, kind |-> "value",
                   value |-> bearing(PT[n1].lat, PT[n1].lon, PT[n2].lat, PT[n2].lon)]
     \/ \E n1 \in GlobeNames, n2 \in GlobeNames :
          geom' = [fn |-> "bearing", p1 |-> n1, p2 |-> n2, kind |-> "value",
                   value |-> globe_bearing(n1, n2)]
  /\ UNCHANGED <<flightVars, logVars, kmlVars>>

\* haversine_distance() on two far points.
HaversineDistance ==
  /\ \E n1 \in GlobeNames, n2 \in GlobeNames :
       LET r == haversine_outcome(n1, n2)
       IN  geom' = [fn |-> "haversine_distance", p1 |-> n1, p2 |-> n2,
                    kind |-> r.kind, value |-> r.value]
  /\ UNCHANGED <<flightVars, logVars, kmlVars>>

InitGeodesy ==
  /\ coords = <<>>
  /\ NoCall
  /\ GeoIdle /\ LogIdle /\ KmlIdle

NextGeodesy ==
  \/ Bearing
  \/ HaversineDistance

SpecGeodesy == InitGeodesy /\ [][NextGeodesy]_vars

\* analyze_script_messages on the log, wherever it was read to before.
AnalyzeScriptMessages ==
  /\ tele' = [fn |-> "analyze_script_messages", entered |-> pos,
              result |-> analyze_script_messages(mlog, pos), clock |-> <<>>]
  /\ pos' = Len(mlog)
  /\ UNCHANGED <<mlog, flightVars, geoVars, kmlVars>>

\* analyze_mode_changes on the log, wherever it was read to before.
AnalyzeModeChanges ==
  /\ tele' = [fn |-> "analyze_mode_changes", entered |-> pos,
              result |-> analyze_mode_changes(mlog, pos), clock |-> <<>>]
  /\ pos' = Len(mlog)
  /\ UNCHANGED <<mlog, flightVars, geoVars, kmlVars>>

\* analyze_errors_and_warnings on the log, wherever it was read to before.
AnalyzeErrorsAndWarnings ==
  /\ tele' = [fn |-> "analyze_errors_and_warnings", entered |-> pos,
              result |-> analyze_errors_and_warnings(mlog, pos), clock |-> <<>>]
  /\ pos' = Len(mlog)
  /\ UNCHANGED <<mlog, flightVars, geoVars, kmlVars>>

\* analyze_navigation_target on the log, wherever it was read to before.
AnalyzeNavigationTarget ==
  /\ LET r == analyze_navigation_target(mlog, pos)
     IN  tele' = [fn |-> "analyze_navigation_target", entered |-> pos,
                  result |-> r.targets, clock |-> r.clock]
  /\ pos' = Len(mlog)
  /\ UNCHANGED <<mlog, flightVars, geoVars, kmlVars>>

\* analyze_gps_quality on the log, wherever it was read to before.
AnalyzeGpsQuality ==
  /\ tele' = [fn |-> "analyze_gps_quality", entered |-> pos,
              result |-> analyze_gps_quality(mlog, pos), clock |-> <<>>]
  /\ pos' = Len(mlog)
  /\ UNCHANGED <<mlog, flightVars, geoVars, kmlVars>>

\* A log with GPS data, just opened.
InitGps ==
  /\ \E n \in 0..MaxLogLen :
       \E kinds \in [1..n -> GpsTemplates], deltas \in [1..n -> GpsDeltas] :
         mlog = LogOf(kinds, deltas)
  /\ pos = 0
  /\ tele = NoTele
  /\ coords = <<>>
  /\ NoCall
  /\ GeoIdle /\ KmlIdle

NextGps ==
  \/ AnalyzeScriptMessages
  \/ AnalyzeModeChanges
  \/ AnalyzeErrorsAndWarnings
  \/ AnalyzeGpsQuality
  \/ AnalyzeNavigationTarget

SpecGps == InitGps /\ [][NextGps]_vars

\* A log just opened.
InitTelemetry ==
  /\ \E n \in 0..MaxLogLen :
       \E kinds \in [1..n -> Templates], deltas \in [1..n -> LogDeltas] :
         mlog = LogOf(kinds, deltas)
  /\ pos = 0
  /\ tele = NoTele
  /\ coords = <<>>
  /\ NoCall
  /\ GeoIdle /\ KmlIdle

NextTelemetry ==
  \/ AnalyzeScriptMessages
  \/ AnalyzeModeChanges
  \/ AnalyzeErrorsAndWarnings
  \/ AnalyzeGpsQuality
  \/ AnalyzeNavigationTarget

SpecTelemetry == InitTelemetry /\ [][NextTelemetry]_vars

\* create_kml_from_gps_data / create_kmz on the points.
CreateKml ==
  /\ ~kml.written
  /\ \E include_waypoints \in BOOLEAN :
       kml' = [written |-> TRUE, include_waypoints |-> include_waypoints,
               placemarks |-> create_kml_from_gps_data(gps_points, include_waypoints)]
  /\ UNCHANGED <<gps_points, parsed, flightVars, geoVars, logVars>>

\* parse_kml / load_gps_data on the document written.
ParseKml ==
  /\ kml.written
  /\ ~parsed.done
  /\ parsed' = [done |-> TRUE, coords_list |-> parse_kml(kml.placemarks)]
  /\ UNCHANGED <<gps_points, kml, flightVars, geoVars, logVars>>

InitKml ==
  /\ gps_points \in UNION { [1..n -> KmlPoints] : n \in 0..MaxKmlPoints }
  /\ kml = NoKml
  /\ parsed = NoParsed
  /\ coords = <<>>
  /\ NoCall
  /\ GeoIdle /\ LogIdle

NextKml ==
  \/ CreateKml
  \/ ParseKml

SpecKml == InitKml /\ [][NextKml]_vars

\* Any track of at most MaxCallLen points.
InitCalls ==
  /\ coords \in CallTracks
  /\ NoCall
  /\ GeoIdle /\ LogIdle /\ KmlIdle

\* Every analysis, in every order.
NextCalls ==
  \/ FindCornerPasses
  \/ FindCornerPassesNonPositive
  \/ AnalyzeWaypointProximity
  \/ AnalyzeCornerDetail
  \/ AnalyzeFile

SpecCalls == InitCalls /\ [][NextCalls]_vars

(***************************************************************************)
(* Properties of pass detection.                                           *)
(***************************************************************************)
\* The last call returned a pass list: find_corner_passes, or
\* analyze_corner_detail for a known corner (search radius 50 m).
ReturnedPasses == ret.kind = "passes"

\* The corner the last call was made for.
CallCorner == PT[call.name]

\* Distance of track point number i (0-based) to the corner of the call.
DistOf(i) ==
  haversine_distance(coords[i + 1].lat, coords[i + 1].lon,
                     CallCorner.lat, CallCorner.lon)

TrackIndices == 0..(Len(coords) - 1)

\* The (pass, position) pairs of the returned pass list.
Slots == UNION { { <<k, j>> : j \in 1..Len(ret.passes[k]) } : k \in 1..Len(ret.passes) }

\* The indices that appear in the returned passes.
PassIndexSet == { ret.passes[s[1]][s[2]].index : s \in Slots }

FirstIndex(k) == ret.passes[k][1].index

LastIndex(k) == ret.passes[k][Len(ret.passes[k])].index

\* C1: inside every returned pass consecutive points differ in index by less
\* than 10, and the last point of a pass and the first point of the next pass
\* differ in index by at least 10; no pass is started without a point.
C1_PassGrouping ==
  ReturnedPasses =>
    /\ \A k \in 1..Len(ret.passes) :
         /\ Len(ret.passes[k]) >= 1
         /\ \A j \in 1..(Len(ret.passes[k]) - 1) :
              ret.passes[k][j+1].index - ret.passes[k][j].index < 10
    /\ \A k \in 1..(Len(ret.passes) - 1) :
         FirstIndex(k + 1) - LastIndex(k) >= 10

\* A pass that spans an index gap of 9, followed by a pass that starts after
\* an index gap of exactly 10.
C1_Witness ==
  /\ call.fn = "find_corner_passes"
  /\ \E k \in 1..(Len(ret.passes) - 1) :
       /\ FirstIndex(k + 1) - LastIndex(k) = 10
       /\ \E j \in 1..(Len(ret.passes[k]) - 1) :
            ret.passes[k][j+1].index - ret.passes[k][j].index = 9

\* The points of the returned passes, one after another.
RECURSIVE Flatten(_)
Flatten(ps) == IF ps = <<>> THEN <<>> ELSE Head(ps) \o Flatten(Tail(ps))

\* Every selected point carries its own index, position and distance, and
\* the selected points are in track order.
SelectedFaithful ==
  LET f == Flatten(ret.passes)
  IN  /\ \A n \in 1..Len(f) :
           /\ f[n].index \in TrackIndices
           /\ f[n].lat = coords[f[n].index + 1].lat
           /\ f[n].lon = coords[f[n].index + 1].lon
           /\ f[n].dist = DistOf(f[n].index)
      /\ \A n \in 1..(Len(f) - 1) : f[n].index < f[n+1].index

\* C2 as stated: a track point is selected if and only if its distance to the
\* reference point is at most the search radius.
C2_Original ==
  ReturnedPasses =>
    /\ LET selected == PassIndexSet
       IN  \A i \in TrackIndices : (i \in selected) <=> (DistOf(i) <= call.radius)
    /\ SelectedFaithful

\* C2 amended: a track point is selected if and only if its distance to the
\* reference point is strictly less than the search radius (a point exactly
\* on the radius is excluded); the selected points keep track order and each
\* carries the distance computed for it.
C2_RadiusFilter ==
  ReturnedPasses =>
    /\ LET selected == PassIndexSet
       IN  \A i \in TrackIndices : (i \in selected) <=> (DistOf(i) < call.radius)
    /\ SelectedFaithful

\* A point exactly on the search radius is left out while a point inside the
\* radius is selected.
C2_Witness ==
  /\ call.fn = "find_corner_passes"
  /\ LET selected == PassIndexSet
     IN  /\ \E i \in TrackIndices : DistOf(i) = call.radius /\ i \notin selected
         /\ \E i \in TrackIndices : DistOf(i) < call.radius /\ i \in selected

\* C3: the indices in the returned passes contain no duplicates, and each is
\* the index of a track point that is not outside the search radius.
C3_NoOverlap ==
  ReturnedPasses =>
    /\ \A s, t \in Slots :
         ret.passes[s[1]][s[2]].index = ret.passes[t[1]][t[2]].index => s = t
    /\ LET selected == PassIndexSet
       IN  /\ \A i \in selected : i \in TrackIndices /\ DistOf(i) <= call.radius
           /\ \A i \in TrackIndices : DistOf(i) > call.radius => i \notin selected

\* Several passes over a track that also has points outside the radius.
C3_Witness ==
  /\ ReturnedPasses
  /\ Len(ret.passes) >= 2
  /\ \E i \in TrackIndices : DistOf(i) > call.radius
  /\ Cardinality(PassIndexSet) >= 4

\* The least index of pass k.
MinIndex(k) ==
  CHOOSE m \in { ret.passes[k][j].index : j \in 1..Len(ret.passes[k]) } :
    \A j \in 1..Len(ret.passes[k]) : m <= ret.passes[k][j].index

\* C4: the least index of a pass is strictly less than the least index of the
\* next pass, and within each pass the points are in ascending index order.
C4_MonotonicOrder ==
  ReturnedPasses =>
    /\ \A k \in 1..(Len(ret.passes) - 1) : MinIndex(k) < MinIndex(k + 1)
    /\ \A k \in 1..Len(ret.passes) :
         \A j \in 1..(Len(ret.passes[k]) - 1) :
           ret.passes[k][j].index < ret.passes[k][j+1].index

\* Three passes, each of several points.
C4_Witness ==
  /\ ReturnedPasses
  /\ Len(ret.passes) = 3
  /\ \A k \in 1..3 : Len(ret.passes[k]) >= 2

\* The indices of the track points inside the search radius.
InRadiusSet == { i \in TrackIndices : DistOf(i) < call.radius }

\* The first indices of the runs of consecutive indices of the set S.
RunStarts(S) == { i \in S : (i - 1) \notin S }

\* The greatest element of S below i, or -1 when there is none.
PrevIn(S, i) ==
  IF \E h \in S : h < i
  THEN CHOOSE h \in S : h < i /\ \A g \in S : g < i => g <= h
  ELSE -1

\* The runs of consecutive indices of S are at least 10 indices apart.
RunsSeparated(S) ==
  \A i \in RunStarts(S) : PrevIn(S, i) >= 0 => i - PrevIn(S, i) >= 10

\* The indices of pass k, in order.
IndexSeq(k) == [j \in 1..Len(ret.passes[k]) |-> ret.passes[k][j].index]

\* C5: when the in-radius points form k runs of consecutive indices that are
\* at least 10 indices apart, exactly k passes are returned, the n-th pass
\* being the n-th run; in-radius indices 0,1,2,50,51,52 give the passes
\* <<0,1,2>> and <<50,51,52>>, and two runs of 5 separated by a gap of 200
\* points give two passes of 5 points.
C5_ClusterScenarios ==
  ReturnedPasses =>
    LET S      == InRadiusSet
        starts == RunStarts(S)
    IN  RunsSeparated(S) =>
          /\ Len(ret.passes) = Cardinality(starts)
          /\ \A k \in 1..Len(ret.passes) :
               /\ FirstIndex(k) \in starts
               /\ Cardinality({ s \in starts : s <= FirstIndex(k) }) = k
               /\ \A j \in 1..Len(ret.passes[k]) :
                    ret.passes[k][j].index = FirstIndex(k) + j - 1
               /\ (LastIndex(k) + 1) \notin S
          /\ (S = {0, 1, 2, 50, 51, 52} =>
                /\ Len(ret.passes) = 2
                /\ IndexSeq(1) = <<0, 1, 2>>
                /\ IndexSeq(2) = <<50, 51, 52>>)
          /\ (S = (0..4) \cup (205..209) =>
                /\ Len(ret.passes) = 2
                /\ Len(ret.passes[1]) = 5
                /\ Len(ret.passes[2]) = 5)

\* The track of two laps of 5 in-radius points with 200 points between them.
C5_Witness ==
  /\ call.fn = "find_corner_passes"
  /\ InRadiusSet = (0..4) \cup (205..209)
  /\ Len(coords) = 210
  /\ Len(ret.passes) = 2

\* The track whose in-radius indices are 0,1,2,50,51,52.
C5_SixPoints ==
  /\ call.fn = "find_corner_passes"
  /\ InRadiusSet = {0, 1, 2, 50, 51, 52}
  /\ Len(ret.passes) = 2

\* Three separated runs.
C5_ThreeRuns ==
  /\ ReturnedPasses
  /\ RunsSeparated(InRadiusSet)
  /\ Cardinality(RunStarts(InRadiusSet)) = 3

(***************************************************************************)
(* Properties of the closest-approach analysis.                            *)
(***************************************************************************)
\* The last call returned proximity results: analyze_waypoint_proximity, or
\* analyze_file on a track with data.
ReturnedResults == ret.kind \in {"results", "file"}

\* Distance of track point number i (0-based) to reference point n.
DistTo(i, n) ==
  haversine_distance(coords[i + 1].lat, coords[i + 1].lon, PT[n].lat, PT[n].lon)

\* C6: the result has one entry per reference-point name, and for a non-empty
\* track min_distance is the least distance of any point of the track to the
\* reference point and point_index is an index where it is attained.
C6_ProximityMinimum ==
  ReturnedResults =>
    /\ DOMAIN ret.results = call.wps
    /\ coords # <<>> =>
         \A n \in call.wps :
           /\ ret.results[n].point_index \in TrackIndices
           /\ ret.results[n].min_distance = DistTo(ret.results[n].point_index, n)
           /\ \A i \in TrackIndices : ret.results[n].min_distance <= DistTo(i, n)

\* The closest point comes after an earlier point that was already inside
\* the 50 m radius of the reference point.
C6_Witness ==
  /\ call.fn = "analyze_waypoint_proximity"
  /\ \E n \in call.wps :
       \E i \in TrackIndices :
         /\ i < ret.results[n].point_index
         /\ DistTo(i, n) < DefaultSearchRadius
         /\ DistTo(i, n) > ret.results[n].min_distance

\* C7: point_index is None for every reference point when the track is empty,
\* and for a non-empty track it is an index in 0..len(track)-1, never None.
C7_IndexNoneOnlyWhenEmpty ==
  ReturnedResults =>
    \A n \in DOMAIN ret.results :
      /\ coords = <<>> => ret.results[n].point_index = None
      /\ coords # <<>> =>
           /\ ret.results[n].point_index # None
           /\ ret.results[n].point_index \in 0..(Len(coords) - 1)

\* The proximity analysis of the empty track: no index for any waypoint.
C7_Witness ==
  /\ call.fn = "analyze_waypoint_proximity"
  /\ coords = <<>>
  /\ call.wps = DOMAIN WAYPOINTS_EXT
  /\ \A n \in call.wps : ret.results[n].point_index = None

\* C8 as stated: no returned result carries min_distance = infinity, for any
\* track including the empty one, and every min_distance is >= 0.
C8_Original ==
  ReturnedResults =>
    \A n \in DOMAIN ret.results :
      /\ ret.results[n].min_distance # Infinity
      /\ ret.results[n].min_distance >= 0

\* C8 amended: analyze_waypoint_proximity returns min_distance = infinity
\* exactly when the track is empty; for a non-empty track every min_distance
\* is finite and >= 0; analyze_file returns None for an empty track before
\* the proximity analysis, so it neither returns nor prints an infinite
\* distance.
C8_InfinityOnlyWhenEmpty ==
  /\ ReturnedResults =>
       \A n \in DOMAIN ret.results :
         /\ (ret.results[n].min_distance = Infinity) <=> (coords = <<>>)
         /\ ret.results[n].min_distance >= 0
  /\ call.fn = "analyze_file" =>
       /\ coords = <<>> =>
            /\ ret.kind = "None"
            /\ \A n \in DOMAIN out.rows : ~out.rows[n].printed
       /\ ret.kind = "file" =>
            \A n \in DOMAIN out.rows :
              /\ out.rows[n].printed
              /\ out.rows[n].dist = ret.results[n].min_distance
              /\ out.rows[n].dist < Infinity

\* The proximity analysis of the empty track returns the infinite running
\* minimum.
C8_Witness ==
  /\ call.fn = "analyze_waypoint_proximity"
  /\ coords = <<>>
  /\ \E n \in call.wps : ret.results[n].min_distance = Infinity

\* analyze_file on the empty track returns None and prints no distance.
C8_FileWitness ==
  /\ call.fn = "analyze_file"
  /\ coords = <<>>
  /\ ret.kind = "None"

(***************************************************************************)
(* Properties of the corner report.                                        *)
(***************************************************************************)
\* Element number i (0-based, modulo the length) of the course loop.
LoopElement(i) == corner_order[((i + Len(corner_order)) % Len(corner_order)) + 1]

\* 0-based position of the corner of the call in the course loop.
LoopIndex == CHOOSE i \in 0..(Len(corner_order) - 1) : corner_order[i + 1] = call.name

\* C9: for a corner of the closed loop GATE, SW, NW, NE, SE, every reported
\* pass has an entry bearing taken from element (i-1) mod 5 and an exit
\* bearing taken to element (i+1) mod 5 of the loop.
C9_LoopAdjacency ==
  (call.fn = "analyze_corner_detail" /\ ret.kind = "passes" /\ InOrder(call.name)) =>
    \A k \in 1..Len(out.reports) :
      /\ out.reports[k].entry.shown
      /\ out.reports[k].entry.from = LoopElement(LoopIndex - 1)
      /\ out.reports[k].exit.shown
      /\ out.reports[k].exit.from = LoopElement(LoopIndex + 1)

\* C10: a reference-point name that is no key of the waypoint set is reported
\* as an error and None is returned with no pass or bearing computed; a known
\* name is analysed and a pass list is returned.
C10_UnknownCorner ==
  call.fn = "analyze_corner_detail" =>
    IF call.name \notin call.wps
    THEN /\ ret.kind = "None"
         /\ ret.passes = <<>>
         /\ out.error
         /\ reached \cap {"find_corner_passes", "haversine_distance", "bearing"} = {}
         /\ out.total = 0
         /\ out.reports = <<>>
         /\ ~out.geometry.shown
    ELSE /\ ret.kind = "passes"
         /\ ~out.error
         /\ "find_corner_passes" \in reached

\* An unknown name given with a track that has points around the course.
C10_Witness ==
  /\ call.fn = "analyze_corner_detail"
  /\ call.name = "XX"
  /\ Len(coords) >= 3
  /\ out.error
  /\ ret.kind = "None"

(***************************************************************************)
(* Claims on parameter checking, bearing errors, purity, coverage and ties *)
(***************************************************************************)
\* C11: pass detection called with a search radius that is not positive
\* fails with an error; it does not return a pass list, not even an empty one.
C11_FailFast ==
  (call.fn = "find_corner_passes" /\ call.radius <= 0) => ret.kind = "error"

\* The passes of the detail report of the last call, as far as they are shown.
ShownPasses == SubSeq(ret.passes, 1, Len(out.reports))

\* The bearing from reference point n to a point of a pass.
BearingFrom(n, p) == bearing(PT[n].lat, PT[n].lon, p.lat, p.lon)

\* The shorter way round from one bearing to the other passes through north.
AcrossNorth(a, b) ==
  LET lo == Min(a, b)
      hi == IF a < b THEN b ELSE a
  IN  lo + FullTurn - hi < hi - lo

\* C12: for every pass reported with a previous reference point, the entry
\* error is the absolute difference of the bearing from that point to the
\* first point of the pass and the bearing from that point to the corner; it
\* lies in [0, 360) and exceeds 180 when the shorter way between the two
\* bearings passes through north.
C12_EntryError ==
  call.fn = "analyze_corner_detail" =>
    \A k \in 1..Len(out.reports) :
      LET e == out.reports[k].entry
          entry_brg == BearingFrom(e.from, ShownPasses[k][1])
          ideal_brg == BearingFrom(e.from, CallCorner)
      IN  e.shown =>
            /\ e.from = prev_wp(call.name)
            /\ e.brg = entry_brg /\ e.ideal = ideal_brg
            /\ e.error = Abs(entry_brg - ideal_brg)
            /\ e.error >= 0 /\ e.error < FullTurn
            /\ AcrossNorth(entry_brg, ideal_brg) => e.error > FullTurn \div 2

\* A pass of corner NW that starts just east of north of SW, while NW lies
\* just west of north of SW: the reported entry error exceeds 180 degrees.
C12_Witness ==
  /\ call.fn = "analyze_corner_detail"
  /\ \E k \in 1..Len(out.reports) :
       /\ out.reports[k].entry.shown
       /\ out.reports[k].entry.error > FullTurn \div 2
       /\ out.reports[k].entry.brg < FullTurn \div 4
       /\ out.reports[k].entry.ideal > 3 * (FullTurn \div 4)

\* The reference points named by a call.
Restricted(names) == [n \in names |-> WAYPOINTS_EXT[n]]

\* What a call returns when it is made first on the track as loaded.
ResultOf(c, cs) ==
  CASE c.fn = "find_corner_passes" ->
         [kind |-> "passes",
          passes |-> find_corner_passes(cs, WAYPOINTS_EXT[c.name], c.radius),
          results |-> <<>>]
    [] c.fn = "analyze_waypoint_proximity" ->
         [kind |-> "results", passes |-> <<>>,
          results |-> analyze_waypoint_proximity(cs, Restricted(c.wps))]
    [] c.fn = "analyze_corner_detail" ->
         analyze_corner_detail(cs, c.name, Restricted(c.wps)).ret

PureCalls ==
  {"find_corner_passes", "analyze_waypoint_proximity", "analyze_corner_detail"}

\* C14: after any sequence of analysis calls the track and the reference
\* points are what they were; a call returns what the same call returns on
\* the track as loaded, whatever was called before it; and what is returned
\* for one reference point does not depend on the other reference points
\* analysed with it.
C14_Purity ==
  /\ coords = coords0
  /\ course = WAYPOINTS_EXT
  /\ call.fn \in PureCalls => ret = ResultOf(call, coords0)
  /\ call.fn = "analyze_waypoint_proximity" =>
       \A n \in call.wps :
         ret.results[n] = analyze_waypoint_proximity(coords0, Restricted({n}))[n]
  /\ (call.fn = "analyze_corner_detail" /\ call.name \in call.wps) =>
       ret.passes = find_corner_passes(coords0, WAYPOINTS_EXT[call.name],
                                       DefaultSearchRadius)

\* A call made after another call on a track with points, returning passes.
C14_Witness ==
  /\ call.after = "later"
  /\ call.fn = "analyze_corner_detail"
  /\ coords0 # <<>>
  /\ ret.passes # <<>>

\* The indices of the track points inside the search radius, in track order.
InRadiusSeq ==
  SelectSeq([i \in 1..Len(coords) |-> i - 1], LAMBDA i : DistOf(i) < call.radius)

\* C18: the returned passes, one after another, are exactly the track points
\* inside the search radius in track order; every such point is in exactly
\* one pass (it occurs once in the concatenation, whose indices strictly
\* increase); no pass is empty; and the result is empty if and only if no
\* point of the track is inside the radius.
C18_PassCoverage ==
  ReturnedPasses =>
    LET flat == Flatten(ret.passes)
        filtered == InRadiusSeq
    IN  /\ [n \in 1..Len(flat) |-> flat[n].index] = filtered
        /\ \A n \in 1..(Len(flat) - 1) : flat[n].index # flat[n + 1].index
        /\ \A n \in 1..(Len(filtered) - 1) : filtered[n] < filtered[n + 1]
        /\ \A k \in 1..Len(ret.passes) : ret.passes[k] # <<>>
        /\ (ret.passes = <<>>) <=> (filtered = <<>>)

\* Three passes that together hold the in-radius points of a track which
\* also has points outside the radius.
C18_Witness ==
  /\ call.fn = "find_corner_passes"
  /\ Len(ret.passes) = 3
  /\ Len(Flatten(ret.passes)) = Len(InRadiusSeq)
  /\ Len(InRadiusSeq) < Len(coords)

\* A track without a point inside the radius gives no pass.
C18_EmptyWitness ==
  /\ call.fn = "find_corner_passes"
  /\ coords # <<>>
  /\ ret.passes = <<>>

\* C19: when several points of the track are at the minimum distance from a
\* reference point, the index returned is the smallest of theirs.
C19_FirstOfTies ==
  (ReturnedResults /\ coords # <<>>) =>
    \A n \in call.wps :
      \A i \in TrackIndices :
        DistTo(i, n) = ret.results[n].min_distance =>
          ret.results[n].point_index <= i

\* A later point of the track is exactly as close as the one returned.
C19_Witness ==
  /\ call.fn = "analyze_waypoint_proximity"
  /\ \E n \in call.wps :
       \E i \in TrackIndices :
         /\ i > ret.results[n].point_index
         /\ DistTo(i, n) = ret.results[n].min_distance

(***************************************************************************)
(* Claims on the geometry functions                                        *)
(***************************************************************************)
\* The angle atan2 gave for the last bearing call, in micro-degrees.
RawOfCall ==
  IF geom.p1 \in PointNames
  THEN RawBearingTable[geom.p1][geom.p2]
  ELSE GlobeRawBearingTable[geom.p1][geom.p2]

\* C13: bearing returns a value in [0, 360): a raw angle below zero is
\* returned with 360 added, any other raw angle is returned as it is, and 360
\* itself is never returned.
C13_BearingRange ==
  geom.fn = "bearing" =>
    /\ geom.kind = "value"
    /\ geom.value >= 0 /\ geom.value < FullTurn
    /\ geom.value = (IF RawOfCall < 0 THEN RawOfCall + FullTurn ELSE RawOfCall)

\* From SW to NW the raw angle is -10.73 degrees and the bearing 349.27.
C13_Witness ==
  /\ geom.fn = "bearing"
  /\ geom.p1 = "SW" /\ geom.p2 = "NW"
  /\ RawOfCall < 0
  /\ geom.value = RawOfCall + FullTurn

\* C15: haversine_distance and bearing return a value for every pair of
\* points, identical and antipodal ones included; neither raises.
C15_NeverRaises ==
  geom.fn \in {"haversine_distance", "bearing"} => geom.kind = "value"

(***************************************************************************)
(* Claims on the telemetry analyses                                        *)
(***************************************************************************)
\* A MSG record whose text contains one of the four words.
IsScriptMessage(msg) ==
  /\ msg.type = "MSG"
  /\ \E kw \in Keywords :
       \E i \in 1..Len(msg.Message) :
         \A j \in 1..Len(kw) :
           i + j - 1 <= Len(msg.Message) /\ msg.Message[i + j - 1] = kw[j]

\* C16: the result of analyze_script_messages is the subsequence, in log
\* order, of the MSG records whose text contains PYLON, LAP, RACE or GATE,
\* each with its own timestamp, wherever the log was read to before the call.
C16_ScriptMessages ==
  tele.fn = "analyze_script_messages" =>
    LET expected == SelectSeq(mlog, IsScriptMessage)
    IN  /\ Len(tele.result) = Len(expected)
        /\ \A k \in 1..Len(expected) :
             /\ tele.result[k].time = expected[k].ts
             /\ tele.result[k].message = expected[k].Message

\* Script messages are found, among other records, in a log that an earlier
\* analysis had read to its end.
C16_Witness ==
  /\ tele.fn = "analyze_script_messages"
  /\ tele.entered = Len(mlog)
  /\ tele.result # <<>>
  /\ Len(tele.result) < Len(mlog)

NonDecreasing ==
  \A i \in 1..(Len(mlog) - 1) : mlog[i].ts <= mlog[i + 1].ts

\* The value of last_sample_time when record i is tested.
LastSampleTime(i) ==
  LET earlier == { k \in 1..Len(tele.clock) : tele.clock[k] < i }
  IN  IF earlier = {} THEN 0
      ELSE mlog[tele.clock[CHOOSE k \in earlier : \A m \in earlier : m <= k]].ts

\* The two timestamps, as floats, are at least 2.0 s apart.
AtLeastInterval(later, earlier) ==
  \/ later - earlier > SampleInterval
  \/ /\ later - earlier = SampleInterval
     /\ ErrorGap(later, earlier) >= 0

\* C20: on a log with non-decreasing timestamps, two consecutive samples are
\* at least 2.0 s apart and no record before 2.0 s is sampled; the sampling
\* clock is set by every NTUN or TECS record at least 2.0 s after its last
\* setting, and the samples are the NTUN records among these.  The
\* timestamps are floats: the float of 4.1 is less than 2.0 s after the
\* float of 2.1.
C20_SamplingRate ==
  (tele.fn = "analyze_navigation_target" /\ NonDecreasing) =>
    /\ \A k \in 1..(Len(tele.result) - 1) :
         AtLeastInterval(tele.result[k + 1].time, tele.result[k].time)
    /\ \A k \in 1..Len(tele.result) : tele.result[k].time >= SampleInterval
    /\ \A k \in 1..(Len(tele.clock) - 1) : tele.clock[k] < tele.clock[k + 1]
    /\ \A i \in 1..Len(mlog) :
         (\E k \in 1..Len(tele.clock) : tele.clock[k] = i) <=>
           /\ mlog[i].type \in {"NTUN", "TECS"}
           /\ AtLeastInterval(mlog[i].ts, LastSampleTime(i))
    /\ LET sampled == SelectSeq(tele.clock, LAMBDA i : mlog[i].type = "NTUN")
       IN  [k \in 1..Len(tele.result) |-> tele.result[k].time] =
             [k \in 1..Len(sampled) |-> mlog[sampled[k]].ts]

\* A TECS record sets the sampling clock, and an NTUN record that comes less
\* than 2.0 s after it is skipped although the last sample is older than that.
C20_Witness ==
  /\ tele.fn = "analyze_navigation_target"
  /\ tele.result # <<>>
  /\ \E k \in 1..Len(tele.clock) : mlog[tele.clock[k]].type = "TECS"
  /\ \E i \in 1..Len(mlog) :
       /\ mlog[i].type = "NTUN"
       /\ \A k \in 1..Len(tele.clock) : tele.clock[k] # i
       /\ mlog[i].ts - tele.result[Len(tele.result)].time >= SampleInterval

\* A record whose timestamp reads 2.0 s more than the last setting of the
\* clock is skipped: the clock was set at 2.1 s and the record is at 4.1 s.
SkippedAtTwoSeconds ==
  /\ tele.fn = "analyze_navigation_target"
  /\ \E i \in 1..Len(mlog) :
       /\ mlog[i].type \in {"NTUN", "TECS"}
       /\ mlog[i].ts - LastSampleTime(i) = SampleInterval
       /\ \A k \in 1..Len(tele.clock) : tele.clock[k] # i

(***************************************************************************)
(* Claim on the KML round trip                                             *)
(***************************************************************************)
\* The distance of two decimal numbers of the same sign, in 1e-9 degree.
Apart(x, y) ==
  Abs((x.deg - y.deg) * 1000000000 + (x.frac - y.frac))

\* y is x up to the rounding of the ninth decimal.
SameUpTo8(x, y) ==
  /\ Apart(x, y) <= 5
  /\ x.neg = y.neg \/ (y.deg = 0 /\ y.frac = 0)

\* C17: parsing the document written with the default include_waypoints=True
\* gives as many points as were written, in the same order and at the same
\* positions up to the 8-decimal formatting; no parsed point comes from a
\* pylon or waypoint placemark.
C17_RoundTrip ==
  (parsed.done /\ kml.include_waypoints) =>
    /\ Len(parsed.coords_list) = Len(gps_points)
    /\ \A i \in 1..Len(gps_points) :
         /\ SameUpTo8(gps_points[i].lat, parsed.coords_list[i].lat)
         /\ SameUpTo8(gps_points[i].lon, parsed.coords_list[i].lon)

\* Without the pylons and waypoints the round trip gives the points written.
RoundTripOfTrackOnly ==
  (parsed.done /\ ~kml.include_waypoints) =>
    /\ Len(parsed.coords_list) = Len(gps_points)
    /\ \A i \in 1..Len(gps_points) :
         /\ SameUpTo8(gps_points[i].lat, parsed.coords_list[i].lat)
         /\ SameUpTo8(gps_points[i].lon, parsed.coords_list[i].lon)
         /\ Abs(gps_points[i].alt - parsed.coords_list[i].alt) <= 5

(***************************************************************************)
(* Claim on the GPS fix-quality counters                                   *)
(***************************************************************************)
\* The number of GPS records of the log that have the given status.
GpsWithStatus(status) ==
  Cardinality({ i \in 1..Len(mlog) :
                  /\ mlog[i].type = "GPS"
                  /\ "Status" \in mlog[i].fields
                  /\ mlog[i].Status = status })

\* The status codes that have a fix-type counter.
CountedStatuses == {0, 2, 3, 4, 5, 6}

RECURSIVE SumOver(_, _)
SumOver(f, S) ==
  IF S = {} THEN 0
  ELSE LET x == CHOOSE y \in S : TRUE IN f[x] + SumOver(f, S \ {x})

\* C21: after analyze_gps_quality every fix-type counter holds the number
\* of GPS records with its status (0 no_fix, 2 2d_fix, 3 3d_fix, 4 dgps,
\* 5 rtk_float, 6 rtk_fixed), so a record increments at most one counter, and
\* total_samples is the number of GPS records whose status is one of these
\* six: records with status 1 or above 6 are in no counter and not in the
\* total.
C21_FixBuckets ==
  tele.fn = "analyze_gps_quality" =>
    LET g == tele.result.gps_stats
    IN  /\ g.no_fix = GpsWithStatus(0)
        /\ g.fix_2d = GpsWithStatus(2)
        /\ g.fix_3d = GpsWithStatus(3)
        /\ g.dgps = GpsWithStatus(4)
        /\ g.rtk_float = GpsWithStatus(5)
        /\ g.rtk_fixed = GpsWithStatus(6)
        /\ tele.result.total_samples =
             SumOver([c \in CountedStatuses |-> GpsWithStatus(c)], CountedStatuses)
        /\ tele.result.total_samples =
             g.no_fix + g.fix_2d + g.fix_3d + g.dgps + g.rtk_float + g.rtk_fixed

\* A log with a GPS record of status 1, one of status 7 and one of status 3,
\* read to its end before: only the last one is counted.
C21_Witness ==
  /\ tele.fn = "analyze_gps_quality"
  /\ tele.entered = Len(mlog)
  /\ GpsWithStatus(1) = 1 /\ GpsWithStatus(7) = 1
  /\ tele.result.gps_stats.fix_3d = 1
  /\ tele.result.total_samples = 1
====
